---- MODULE Spec2Model ----
(***************************************************************************)
(* installer-archive: the newsletter scraper (src/src/lib/scraper) and the *)
(* scrape endpoint (src/src/app/api/scrape/route.ts).                      *)
(*                                                                         *)
(* Part 1 models the parser (pure functions over page text).  Text is      *)
(* modelled by TLA+ strings; a page is modelled by the pieces the parser's *)
(* regular expressions cut it into (script payload, article region,        *)
(* anchors and the text between them).                                     *)
(* Part 2 models the database rows and the scrape operations as processes  *)
(* that interleave at every await of the source.                           *)
(***************************************************************************)
EXTENDS Naturals, Integers, Sequences, FiniteSets, TLC

VARIABLES
    pdoc,       \* parser run: the page handed to parseNewsletterContent
    pout,       \* parser run: the list it returned
    pdone,      \* parser run: whether parseNewsletterContent has returned
    crun,       \* classifier run: the arguments of guessCategory and what it returned
    tags,       \* table Tag: the names in id order
    recTags,    \* table _RecommendationToTag: the pairs <<recommendation id, tag id>>
    tagReq,     \* the tagging calls in progress, one record each
    issues,     \* table Issue: the rows in id order, [url, title, date, scrapedAt]
    recs,       \* table Recommendation: the rows in id order,
                \* [issueId, url, title, category]
    req,        \* the invocations of POST /api/scrape in progress, one record each
    started,    \* how many POST requests have been received
    persisted,  \* history: <<issue id, page>> of every page whose recommendations
                \* were all looked up and, where missing, created
    failing,    \* the issue urls whose page fails to load on every attempt
    aiReq       \* the call of aiCategorizeRecommendations in progress

(***************************************************************************)
(* Strings                                                                 *)
(***************************************************************************)

\* The value null / undefined of the source.
Null == "<null>"

\* The decoded em dash (U+2014), which the module's character set lacks.
EmDash == "~"

Char(s, i) == SubSeq(s, i, i)

Max(a, b) == IF a >= b THEN a ELSE b

Min(a, b) == IF a <= b THEN a ELSE b

\* the least and the greatest member of a non-empty set of integers
MinOf(S) == CHOOSE x \in S : \A y \in S : x <= y

MaxOf(S) == CHOOSE x \in S : \A y \in S : x >= y

\* the least member, or the default when the set is empty
MinOr(S, default) == IF S = {} THEN default ELSE MinOf(S)

MaxOr(S, default) == IF S = {} THEN default ELSE MaxOf(S)

\* String.prototype.startsWith
StartsWith(s, p) == Len(s) >= Len(p) /\ SubSeq(s, 1, Len(p)) = p

\* String.prototype.endsWith
EndsWith(s, p) == Len(s) >= Len(p) /\ SubSeq(s, Len(s) - Len(p) + 1, Len(s)) = p

\* s has p at (1-based) position i
HasAt(s, p, i) == i >= 1 /\ i + Len(p) - 1 <= Len(s) /\ SubSeq(s, i, i + Len(p) - 1) = p

\* String.prototype.includes
Includes(s, p) == \E i \in 1..(Len(s) - Len(p) + 1) : HasAt(s, p, i)

\* String.prototype.indexOf(p, from) with 0-based positions; -1 when absent
IndexOf(s, p, from) ==
    MinOr({i \in Min(Max(from, 0), Len(s))..(Len(s) - Len(p)) : HasAt(s, p, i + 1)}, -1)

\* String.prototype.lastIndexOf(p, from) with 0-based positions; -1 when absent
LastIndexOf(s, p, from) ==
    MaxOr({i \in 0..Min(Max(from, 0), Len(s) - Len(p)) : HasAt(s, p, i + 1)}, -1)

\* the characters of s between two 0-based positions in either order
Between(s, a, b) == SubSeq(s, Min(a, b) + 1, Max(a, b))

\* String.prototype.substring(a, b) with 0-based positions: clamps and swaps
Substring(s, a, b) == Between(s, Min(Max(a, 0), Len(s)), Min(Max(b, 0), Len(s)))

UpperChars == "ABCDEFGHIJKLMNOPQRSTUVWXYZ"

LowerChars == "abcdefghijklmnopqrstuvwxyz"

DigitChars == "0123456789"

UpperSet == {Char(UpperChars, i) : i \in 1..Len(UpperChars)}

LowerSet == {Char(LowerChars, i) : i \in 1..Len(LowerChars)}

DigitSet == {Char(DigitChars, i) : i \in 1..Len(DigitChars)}

WordSet == UpperSet \cup LowerSet \cup DigitSet \cup {"_"}

LowerOf == [c \in UpperSet |-> Char(LowerChars, CHOOSE i \in 1..Len(UpperChars) : Char(UpperChars, i) = c)]

UpperOf == [c \in LowerSet |-> Char(UpperChars, CHOOSE i \in 1..Len(LowerChars) : Char(LowerChars, i) = c)]

IsUpper(c) == c \in UpperSet

IsLowerCh(c) == c \in LowerSet

IsDigit(c) == c \in DigitSet

IsLetter(c) == c \in UpperSet \/ c \in LowerSet

\* \w of the regular expressions
IsWordCh(c) == c \in WordSet

\* \s of the regular expressions
IsSpace(c) == c = " "

LowerChar(c) == IF c \in UpperSet THEN LowerOf[c] ELSE c

UpperChar(c) == IF c \in LowerSet THEN UpperOf[c] ELSE c

RECURSIVE ToLower(_)
\* String.prototype.toLowerCase
ToLower(s) == IF Len(s) = 0 THEN "" ELSE LowerChar(Char(s, 1)) \o ToLower(SubSeq(s, 2, Len(s)))

\* s from the first to the last of the positions kept
TrimTo(s, keep) == IF keep = {} THEN "" ELSE SubSeq(s, MinOf(keep), MaxOf(keep))

\* String.prototype.trim
Trim(s) == TrimTo(s, {i \in 1..Len(s) : ~IsSpace(Char(s, i))})

\* every character of s satisfies \d, and there is one
AllDigits(s) == Len(s) > 0 /\ \A i \in 1..Len(s) : IsDigit(Char(s, i))

RECURSIVE ReplaceAll(_, _, _)
\* String.prototype.replace(new RegExp(from, "g"), to) for a literal from
ReplaceAll(s, from, to) ==
    IF Len(s) = 0 THEN ""
    ELSE IF HasAt(s, from, 1)
         THEN to \o ReplaceAll(SubSeq(s, Len(from) + 1, Len(s)), from, to)
         ELSE Char(s, 1) \o ReplaceAll(SubSeq(s, 2, Len(s)), from, to)

(***************************************************************************)
(* Regular expressions: a pattern is a sequence of elements, and           *)
(* MatchSeq gives every position at which a match starting at i can end.   *)
(***************************************************************************)

Lit(v) == [t |-> "lit", v |-> v, alts |-> <<>>]

\* v? for a literal v
Opt(v) == [t |-> "opt", v |-> v, alts |-> <<>>]

\* \s* and \s+
Ws0 == [t |-> "star", v |-> "s", alts |-> <<>>]

Ws1 == [t |-> "plus", v |-> "s", alts |-> <<>>]

\* \d* and \d+
Dig0 == [t |-> "star", v |-> "d", alts |-> <<>>]

Dig1 == [t |-> "plus", v |-> "d", alts |-> <<>>]

\* \w+
Word1 == [t |-> "plus", v |-> "w", alts |-> <<>>]

\* .* (the inputs hold no line terminator)
Any0 == [t |-> "star", v |-> ".", alts |-> <<>>]

\* one or more of any character but the double quote or "<": [^"]+ and [^<]+
Any1 == [t |-> "plus", v |-> ".", alts |-> <<>>]

\* \d{lo,hi}
DigRep(lo, hi) == [t |-> "rep", v |-> "d", alts |-> <<>>, lo |-> lo, hi |-> hi]

\* [A-Z] and [a-zA-Z\s]{lo,hi}
Upper1 == [t |-> "one", v |-> "U", alts |-> <<>>]

LetterRep(lo, hi) == [t |-> "rep", v |-> "L", alts |-> <<>>, lo |-> lo, hi |-> hi]

\* (a|b|...) where each alternative is a pattern
Alt(alts) == [t |-> "alt", v |-> "", alts |-> alts]

\* (a|b|...) where each alternative is a literal
AltLit(lits) == Alt([k \in DOMAIN lits |-> <<Lit(lits[k])>>])

\* \b, ^ and $
Bnd == [t |-> "b", v |-> "", alts |-> <<>>]

Bol == [t |-> "^", v |-> "", alts |-> <<>>]

Eol == [t |-> "$", v |-> "", alts |-> <<>>]

InClass(c, kind) ==
    CASE kind = "s" -> IsSpace(c)
      [] kind = "U" -> IsUpper(c)
      [] kind = "L" -> IsLetter(c) \/ IsSpace(c)
      [] kind = "d" -> IsDigit(c)
      [] kind = "S" -> ~IsSpace(c)
      [] kind = "w" -> IsWordCh(c)
      [] OTHER -> TRUE

\* the length of the longest run of characters of the class starting at position i
RunLen(s, i, kind) ==
    MinOr({j \in i..Len(s) : ~InClass(Char(s, j), kind)}, Len(s) + 1) - i

AtBoundary(s, i) ==
    (i > 1 /\ IsWordCh(Char(s, i - 1))) # (i <= Len(s) /\ IsWordCh(Char(s, i)))

RECURSIVE MatchSeq(_, _, _)
MatchSeq(pat, s, i) ==
    IF Len(pat) = 0 THEN {i}
    ELSE LET e == Head(pat)
             rest == Tail(pat)
         IN  CASE e.t = "lit" ->
                    IF HasAt(s, e.v, i) THEN MatchSeq(rest, s, i + Len(e.v)) ELSE {}
               [] e.t = "opt" ->
                    MatchSeq(rest, s, i)
                    \cup (IF HasAt(s, e.v, i) THEN MatchSeq(rest, s, i + Len(e.v)) ELSE {})
               [] e.t = "star" ->
                    UNION {MatchSeq(rest, s, j) : j \in i..(i + RunLen(s, i, e.v))}
               [] e.t = "plus" ->
                    UNION {MatchSeq(rest, s, j) : j \in (i + 1)..(i + RunLen(s, i, e.v))}
               [] e.t = "rep" ->
                    UNION {MatchSeq(rest, s, j) :
                             j \in (i + e.lo)..(i + Min(e.hi, RunLen(s, i, e.v)))}
               [] e.t = "one" ->
                    IF i <= Len(s) /\ InClass(Char(s, i), e.v)
                    THEN MatchSeq(rest, s, i + 1) ELSE {}
               [] e.t = "alt" ->
                    UNION {MatchSeq(rest, s, j) :
                             j \in UNION {MatchSeq(e.alts[k], s, i) : k \in DOMAIN e.alts}}
               [] e.t = "b" -> IF AtBoundary(s, i) THEN MatchSeq(rest, s, i) ELSE {}
               [] e.t = "^" -> IF i = 1 THEN MatchSeq(rest, s, i) ELSE {}
               [] e.t = "$" -> IF i = Len(s) + 1 THEN MatchSeq(rest, s, i) ELSE {}
               [] OTHER -> {}

\* RegExp.prototype.test
RegexTest(pat, s) == \E i \in 1..(Len(s) + 1) : MatchSeq(pat, s, i) # {}

\* RegExp.prototype.test with the i flag, for a pattern written in lower case
RegexTestI(pat, s) == RegexTest(pat, ToLower(s))

(***************************************************************************)
(* Text normalizer (src/unnamed/part_014)                                  *)
(***************************************************************************)

HTML_ENTITIES ==
    << <<"&rsquo;", "'">>, <<"&lsquo;", "'">>, <<"&rdquo;", "\"">>, <<"&ldquo;", "\"">>,
       <<"&mdash;", EmDash>>, <<"&ndash;", "-">>, <<"&amp;", "&">>, <<"&lt;", "<">>,
       <<"&gt;", ">">>, <<"&nbsp;", " ">>, <<"&#038;", "&">>, <<"&eacute;", "e">>,
       <<"&hellip;", "...">> >>

RECURSIVE DecodeFrom(_, _)
DecodeFrom(s, k) ==
    IF k > Len(HTML_ENTITIES) THEN s
    ELSE DecodeFrom(ReplaceAll(s, HTML_ENTITIES[k][1], HTML_ENTITIES[k][2]), k + 1)

RECURSIVE StripTags(_)
\* the text after the tag that opens s and closes at 0-based position close
AfterTag(s, close) ==
    IF close >= 2 THEN StripTags(SubSeq(s, close + 2, Len(s)))
    ELSE "<" \o StripTags(SubSeq(s, 2, Len(s)))

\* replace(/<[^>]+>/g, "")
StripTags(s) ==
    IF Len(s) = 0 THEN ""
    ELSE IF Char(s, 1) = "<" THEN AfterTag(s, IndexOf(s, ">", 2))
    ELSE Char(s, 1) \o StripTags(SubSeq(s, 2, Len(s)))

decodeHtmlEntities(text) == IF Len(text) = 0 THEN "" ELSE StripTags(DecodeFrom(text, 1))

(***************************************************************************)
(* Link filter (src/unnamed/part_000, src/src/lib/scraper/scraper.ts)      *)
(***************************************************************************)

SKIP_URL_PATTERNS ==
    << <<Lit("theverge.com/ethics")>>,
       <<Lit("theverge.com/privacy")>>,
       <<Lit("theverge.com/terms")>>,
       <<Lit("theverge.com/contact")>>,
       <<Lit("theverge.com/about")>>,
       <<Lit("theverge.com/sitemap")>>,
       <<Lit("theverge.com/rss")>>,
       <<Lit("theverge.com/authors/")>>,
       <<Lit("theverge.com/installer-newsletter"), Opt("/"), Eol>>,
       <<Lit("theverge.com/installer-newsletter/archives")>>,
       <<Lit("theverge.com/pages/")>>,
       <<Lit("theverge.com"), Opt("/"), Eol>>,
       <<Lit("twitter.com/intent")>>,
       <<Lit("twitter.com/verge")>>,
       <<Lit("facebook.com/sharer")>>,
       <<Lit("linkedin.com/share")>>,
       <<Lit("instagram.com/verge")>>,
       <<Lit("threads.net/"), Any0, Lit("verge")>>,
       <<Lit("tiktok.com/@verge")>>,
       <<Lit("voxmedia.com")>>,
       <<Lit("onetrust.com")>>,
       <<Lit("status.voxmedia")>>,
       <<Lit("mailto:")>>,
       <<Lit("#comments")>>,
       <<Bol, Lit("#")>>,
       <<Lit("."), AltLit(<<"css", "js", "woff", "png", "jpg", "ico", "svg">>), Eol>> >>

\* every pattern carries the i flag but /^\d+$/ and /^\s*$/, which have no letters
JUNK_TITLE_PATTERNS ==
    << <<Bol, Lit("see all")>>,
       <<Bol, Lit("comment"), Opt("s"), Ws0, Dig0>>,
       <<Bol, Dig1, Ws0, Lit("comment"), Opt("s")>>,
       <<Bol, Lit("share"), Eol>>,
       <<Bol, Lit("icon")>>,
       <<Bol, Lit("subscribe")>>,
       <<Bol, Lit("sign up")>>,
       <<Bol, Lit("read more"), Eol>>,
       <<Bol, Lit("click here")>>,
       <<Bol, Lit("here"), Eol>>,
       <<Bol, Lit("link"), Eol>>,
       <<Bol, Dig1, Eol>>,
       <<Bol, Lit("the"), Eol>>,
       <<Bol, Lit("a"), Eol>>,
       <<Bol, Lit("an"), Eol>>,
       <<Bol, Ws0, Eol>> >>

\* a filter with an empty skip list
shouldSkipUrlNever(url) == FALSE

shouldSkipUrl(url) ==
    IF url = Null \/ Len(url) = 0 THEN TRUE
    ELSE \E k \in DOMAIN SKIP_URL_PATTERNS : RegexTest(SKIP_URL_PATTERNS[k], url)

isJunkTitle(title) ==
    IF title = Null \/ Len(title) = 0 \/ Len(title) < 3 \/ Len(title) > 200 THEN TRUE
    ELSE \E k \in DOMAIN JUNK_TITLE_PATTERNS : RegexTestI(JUNK_TITLE_PATTERNS[k], Trim(title))

(***************************************************************************)
(* URLs (the WHATWG URL parser as far as the scraper uses it)              *)
(***************************************************************************)

\* the earliest of "/", "?" and "#" at or after 0-based position from, or Len(s)
AuthorityEnd(s, from) ==
    MinOr({i \in from..(Len(s) - 1) : Char(s, i + 1) \in {"/", "?", "#"}}, Len(s))

PathEnd(s, from) == MinOr({i \in from..(Len(s) - 1) : Char(s, i + 1) \in {"?", "#"}}, Len(s))

\* c when the c characters before the colon at 0-based position c are a scheme
SchemeEndAt(url, c) ==
    IF c > 0 /\ IsLetter(Char(url, 1))
       /\ \A i \in 1..c : IsWordCh(Char(url, i)) \/ Char(url, i) \in {"+", "-", "."}
    THEN c ELSE -1

\* 0-based position of the colon ending the scheme, or -1 when url has no scheme
SchemeEnd(url) == SchemeEndAt(url, IndexOf(url, ":", 0))

HasAuthorityAt(url, c) == HasAt(url, "//", c + 2)

UrlParsesAt(url, c) ==
    /\ c > 0
    /\ ToLower(SubSeq(url, 1, c)) \in {"http", "https"}
          => HasAuthorityAt(url, c) /\ AuthorityEnd(url, c + 3) > c + 3

\* whether new URL(url) returns (it throws a TypeError otherwise)
UrlParses(url) == url # Null /\ UrlParsesAt(url, SchemeEnd(url))

UrlHostnameAt(url, c) ==
    IF HasAuthorityAt(url, c) THEN ToLower(Substring(url, c + 3, AuthorityEnd(url, c + 3)))
    ELSE ""

\* new URL(url).hostname, for a url that parses
UrlHostname(url) == UrlHostnameAt(url, SchemeEnd(url))

\* the path that starts at 0-based position from; "/" for an empty path after a host
PathFrom(url, from, hasAuthority) ==
    IF hasAuthority /\ PathEnd(url, from) <= from THEN "/"
    ELSE Substring(url, from, PathEnd(url, from))

UrlPathnameAt(url, c) ==
    IF HasAuthorityAt(url, c) THEN PathFrom(url, AuthorityEnd(url, c + 3), TRUE)
    ELSE PathFrom(url, c + 1, FALSE)

\* new URL(url).pathname, for a url that parses
UrlPathname(url) == UrlPathnameAt(url, SchemeEnd(url))

ReplaceAt(s, i, from, to) ==
    IF i < 0 THEN s ELSE Substring(s, 0, i) \o to \o Substring(s, i + Len(from), Len(s))

\* String.prototype.replace(from, to) for a literal from: the first occurrence only
ReplaceFirst(s, from, to) == ReplaceAt(s, IndexOf(s, from, 0), from, to)

DomainAt(url, c) ==
    IF url # Null /\ UrlParsesAt(url, c) THEN ReplaceFirst(UrlHostnameAt(url, c), "www.", "")
    ELSE ""

\* extractDomain of utils/format: "" when the URL is invalid
extractDomainUtil(url) == DomainAt(url, SchemeEnd(url))

NullIfEmpty(s) == IF Len(s) = 0 THEN Null ELSE s

\* extractDomain of the parser: null instead of ""
extractDomain(url) == NullIfEmpty(extractDomainUtil(url))

(***************************************************************************)
(* Category classifier                                                     *)
(***************************************************************************)

CATEGORIES ==
    {"apps", "shows", "movies", "games", "books", "videos", "music", "podcasts", "articles",
     "gadgets", "food-drink", "blog", "website"}

AnyIncludes(list, s) == \E k \in DOMAIN list : Includes(s, list[k])

ShowDomains ==
    <<"netflix.com", "hulu.com", "disneyplus.com", "max.com", "hbomax.com", "peacocktv.com",
      "paramountplus.com", "appletv.apple.com", "tv.apple.com", "amazon.com/gp/video",
      "primevideo.com">>

VideoDomains == <<"youtube.com", "youtu.be", "vimeo.com", "tiktok.com">>

MusicUrls ==
    <<"spotify.com/track", "spotify.com/album", "music.apple.com", "soundcloud.com",
      "bandcamp.com">>

PodcastUrls ==
    <<"spotify.com/show", "podcasts.apple.com", "pocketcasts.com", "overcast.fm", "castro.fm">>

GameDomains ==
    <<"store.steampowered.com", "epicgames.com", "gog.com", "itch.io", "nintendo.com",
      "playstation.com", "xbox.com", "ea.com">>

BookUrls ==
    <<"amazon.com/dp", "bookshop.org", "goodreads.com", "librarything.com", "books.google.com">>

FoodDomains ==
    <<"seriouseats.com", "bonappetit.com", "foodnetwork.com", "epicurious.com", "food52.com",
      "allrecipes.com", "delish.com", "tastingtable.com", "eater.com", "thekitchn.com",
      "cookieandkate.com", "minimalistbaker.com", "wine.com", "vinepair.com",
      "punchdrink.com", "diffordsguide.com", "imbibemagazine.com">>

\* the domain rules in the order of the source, each with its category and
\* whether its condition holds for the domain and the url
DomainRules(domain, url) ==
    << [category |-> "apps",
        holds |-> Includes(domain, "apps.apple.com") \/ Includes(domain, "play.google.com")
                  \/ Includes(domain, "app.") \/ EndsWith(domain, ".app")],
       [category |-> "shows",
        holds |-> AnyIncludes(ShowDomains, domain) \/ AnyIncludes(ShowDomains, url)],
       [category |-> "videos", holds |-> AnyIncludes(VideoDomains, domain)],
       [category |-> "music", holds |-> AnyIncludes(MusicUrls, url)],
       [category |-> "podcasts", holds |-> AnyIncludes(PodcastUrls, url)],
       [category |-> "games", holds |-> AnyIncludes(GameDomains, domain)],
       [category |-> "books", holds |-> AnyIncludes(BookUrls, url)],
       [category |-> "movies",
        holds |-> Includes(domain, "imdb.com") \/ Includes(url, "themoviedb.org/movie")],
       [category |-> "shows", holds |-> Includes(url, "themoviedb.org/tv")],
       [category |-> "gadgets",
        holds |-> (Includes(domain, "amazon.com") /\ ~Includes(url, "/dp/"))
                  \/ Includes(domain, "bestbuy.com") \/ Includes(domain, "bhphotovideo.com")],
       [category |-> "food-drink", holds |-> AnyIncludes(FoodDomains, domain)] >>

\* the rules that hold
Holding(rules) == {k \in DOMAIN rules : rules[k].holds}

\* a chain of rules in which a later rule overrides an earlier one
LastRule(rules) ==
    IF Holding(rules) = {} THEN Null ELSE rules[MaxOf(Holding(rules))].category

\* the chain of ifs: the category of the first rule that holds; Null when none does
FirstRule(rules) ==
    IF Holding(rules) = {} THEN Null ELSE rules[MinOf(Holding(rules))].category

\* the domain rules in their order; Null when none applies
DomainCategory(domain, url) == FirstRule(DomainRules(domain, url))

\* one \d
Dig == [t |-> "one", v |-> "d", alts |-> <<>>]

\* the text rules in their order; each has the i flag and is applied to lower-cased
\* text, so it is written in lower case
TextRules ==
    << <<"apps", <<Bnd, AltLit(<<"ios", "android", "iphone", "ipad">>), Ws0,
                   AltLit(<<"app", "application">>)>> >>,
       <<"shows", <<Bnd, Alt(<< <<Lit("tv"), Ws0, Lit("show")>>,
                                <<Lit("tv"), Ws0, Lit("series")>>,
                                <<Lit("season"), Ws0, Dig1, Ws0,
                                  AltLit(<<"episode", "finale", "premiere">>)>>,
                                <<Lit("episode"), Ws0, Dig1>>,
                                <<Lit("limited"), Ws0, Lit("series")>>,
                                <<Lit("miniseries")>> >>)>> >>,
       <<"movies", <<Bnd, Alt(<< <<Lit("movie")>>, <<Lit("film")>>, <<Lit("cinema")>>,
                                 <<Lit("theatrical"), Ws0, Lit("release")>>,
                                 <<Lit("box"), Ws0, Lit("office")>> >>)>> >>,
       <<"games", <<Bnd, Alt(<< <<Lit("video"), Ws0, Lit("game")>>,
                                <<Lit("nintendo"), Ws0, Lit("switch")>>,
                                <<Lit("playstation"), Ws0, Dig>>,
                                <<Lit("xbox"), Ws0, AltLit(<<"series", "one", "game">>)>>,
                                <<Lit("steam"), Ws0, AltLit(<<"game", "deck">>)>>,
                                <<Lit("pc"), Ws0, Lit("game")>> >>)>> >>,
       <<"books", <<Bnd, Alt(<< <<Lit("novel")>>, <<Lit("memoir")>>, <<Lit("nonfiction")>>,
                                <<Lit("hardcover")>>, <<Lit("paperback")>>,
                                <<Lit("kindle"), Ws0, Lit("edition")>>,
                                <<Lit("audiobook")>> >>)>> >>,
       <<"music", <<Bnd, Alt(<< <<Lit("new"), Ws0, Lit("album")>>,
                                <<Lit("debut"), Ws0, Lit("album")>>,
                                <<Lit("studio"), Ws0, Lit("album")>>,
                                <<Lit("music"), Ws0, Lit("video")>>,
                                <<Lit("new"), Ws0, Lit("single")>>,
                                <<Lit("new"), Ws0, Lit("song")>> >>)>> >>,
       <<"gadgets", <<Bnd, Alt(<< <<Lit("smart"), Ws0, Lit("home")>>, <<Lit("wearable")>>,
                                  <<Lit("headphones")>>, <<Lit("earbuds")>>,
                                  <<Lit("charger")>>, <<Lit("cable")>>,
                                  <<Lit("accessory")>>, <<Lit("gadget")>> >>)>> >>,
       <<"food-drink", <<Bnd, Alt(<< <<Lit("recipe")>>, <<Lit("cookbook")>>,
                                     <<Lit("restaurant"), Ws0, Lit("review")>>,
                                     <<Lit("cocktail"), Ws0, Lit("recipe")>>,
                                     <<Lit("wine"), Ws0, Lit("review")>> >>)>> >> >>

\* text rules that fall off the end without a category
TextCategoryNoDefault(text, k) == Null

RECURSIVE TextCategory(_, _)
\* the first text rule, from rule k on, that matches; "articles" when none does
TextCategory(text, k) ==
    IF k > Len(TextRules) THEN "articles"
    ELSE IF RegexTest(TextRules[k][2], text) THEN TextRules[k][1]
         ELSE TextCategory(text, k + 1)

OrEmpty(s) == IF s = Null THEN "" ELSE s

\* the domain rules come first; the text rules decide when none of them applies
DomainOrText(byDomain, text) == IF byDomain # Null THEN byDomain ELSE TextCategory(text, 1)

CategoryFor(text, domain, url) ==
    DomainOrText(IF domain # Null /\ Len(domain) > 0 THEN DomainCategory(domain, url) ELSE Null,
                 text)

guessCategory(title, description, url) ==
    CategoryFor(ToLower(OrEmpty(title) \o " " \o OrEmpty(description) \o " " \o OrEmpty(url)),
                IF url # Null /\ Len(url) > 0 THEN extractDomain(url) ELSE "", url)

(***************************************************************************)
(* Title inference                                                         *)
(***************************************************************************)

\* the positions q at which \s*\(link\) follows, in the lower-cased context
LinkEnds(context, lc) ==
    {q \in 1..Len(context) : MatchSeq(<<Ws0, Lit("(link)")>>, lc, q + 1) # {}}

\* [A-Z][^.!?]*? can span positions p..q of the context (the i flag admits any letter)
PhraseOk(context, p, q) ==
    /\ q >= p
    /\ IsLetter(Char(context, p))
    /\ \A k \in (p + 1)..q : Char(context, k) \notin {".", "!", "?"}

\* the lazy quantifier stops at the first end that fits
PhraseFrom(context, ends, p) == SubSeq(context, p, MinOf({q \in ends : PhraseOk(context, p, q)}))

\* the match starts at the leftmost position that has one
PhraseIn(context, ends, starts) ==
    IF starts = {} THEN Null ELSE PhraseFrom(context, ends, MinOf(starts))

PhraseAt(context, ends) ==
    PhraseIn(context, ends, {p \in 1..Len(context) : \E q \in ends : PhraseOk(context, p, q)})

\* the capture of /([A-Z][^.!?]*?)\s*\(link\)/i in context; Null without a match
LinkPhrase(context) == PhraseAt(context, LinkEnds(context, ToLower(context)))

\* the word that starts at position j
WordFrom(s, j) == SubSeq(s, j, j + RunLen(s, j, "w") - 1)

WordIn(s, starts) == IF starts = {} THEN Null ELSE WordFrom(s, MinOf(starts))

\* the capture of /<prefix>(\w+)\s*$/ in s, where prefix ends the dash; Null without a match
TrailingWord(prefix, s) ==
    WordIn(s, {j \in 1..Len(s) :
                 /\ \E i \in 1..j : j \in MatchSeq(prefix, s, i)
                 /\ (Len(s) + 1) \in MatchSeq(<<Word1, Ws0, Eol>>, s, j)})

RECURSIVE TitleCase(_, _)
\* replace(/\b\w/g, c => c.toUpperCase()), from position i on
TitleCase(s, i) ==
    IF i > Len(s) THEN ""
    ELSE (IF IsWordCh(Char(s, i)) /\ (i = 1 \/ ~IsWordCh(Char(s, i - 1)))
          THEN UpperChar(Char(s, i)) ELSE Char(s, i)) \o TitleCase(s, i + 1)

SlugCheck(cut, seg) ==
    IF cut >= 0 /\ Len(seg) > 0
       /\ \A i \in 1..Len(seg) : IsLetter(Char(seg, i)) \/ IsDigit(Char(seg, i))
                                 \/ Char(seg, i) = "-"
    THEN seg ELSE Null

SlugAt(t, cut) == SlugCheck(cut, Substring(t, cut + 1, Len(t)))

SlugIn(t) == SlugAt(t, LastIndexOf(t, "/", Len(t)))

\* the capture of /\/([a-z0-9-]+)\/?$/i in pathname; Null without a match
SlugOf(pathname) ==
    SlugIn(IF EndsWith(pathname, "/") THEN SubSeq(pathname, 1, Len(pathname) - 1)
           ELSE pathname)

ExpandCheck(anchorText, expanded) ==
    IF Len(expanded) > Len(anchorText) /\ Len(expanded) < 100 THEN expanded ELSE Null

ExpandAt(anchorText, context, idx) ==
    IF idx > 0
    THEN ExpandCheck(anchorText,
             Trim(Substring(context,
                            Max(0, LastIndexOf(context, " ", idx - 20)),
                            Min(Len(context),
                                IndexOf(context, " ", idx + Len(anchorText) + 30)))))
    ELSE Null

\* step 3 of extractBetterTitle: the anchor text widened inside the context
ExpandedTitle(anchorText, context) == ExpandAt(anchorText, context, IndexOf(context, anchorText, 0))

SlugTitleCheck(slug) == IF Len(slug) > 5 /\ ~isJunkTitle(slug) THEN slug ELSE Null

SlugTitleOf(slugMatch) ==
    IF slugMatch = Null THEN Null
    ELSE SlugTitleCheck(TitleCase(ReplaceAll(slugMatch, "-", " "), 1))

SlugTitleAt(url, c) ==
    IF UrlParsesAt(url, c) THEN SlugTitleOf(SlugOf(UrlPathnameAt(url, c))) ELSE Null

\* step 4 of extractBetterTitle: a title from the last path segment
SlugTitle(url) ==
    IF url # Null /\ Len(url) > 0 THEN SlugTitleAt(url, SchemeEnd(url)) ELSE Null

\* anchorText?.trim() || null
TrimOrNull(trimmed) == IF Len(trimmed) > 0 THEN trimmed ELSE Null

TitleFromSlug(anchorText, slugTitle) ==
    IF slugTitle # Null THEN slugTitle
    ELSE IF anchorText # Null THEN TrimOrNull(Trim(anchorText)) ELSE Null

TitleFromExpansion(anchorText, url, expanded) ==
    IF expanded # Null THEN expanded ELSE TitleFromSlug(anchorText, SlugTitle(url))

TitleFromContext(anchorText, context, url, linkMatch) ==
    IF linkMatch # Null /\ Len(linkMatch) > 3 THEN Trim(linkMatch)
    ELSE TitleFromExpansion(anchorText, url,
             IF context # Null /\ Len(context) > 0 /\ anchorText # Null
                /\ Len(anchorText) > 0 /\ Len(anchorText) < 20
             THEN ExpandedTitle(anchorText, context) ELSE Null)

extractBetterTitle(anchorText, context, url) ==
    IF anchorText # Null /\ Len(anchorText) >= 5 /\ ~isJunkTitle(anchorText)
    THEN Trim(anchorText)
    ELSE TitleFromContext(anchorText, context, url,
             IF context # Null /\ Len(context) > 0 THEN LinkPhrase(context) ELSE Null)

(***************************************************************************)
(* Newsletter content parser                                               *)
(*                                                                         *)
(* A piece of markup is a sequence of parts: [kind |-> "text"] is the raw  *)
(* text between tags, [kind |-> "a"] an anchor with its href attribute     *)
(* ("" when it has none) and its inner markup.                             *)
(***************************************************************************)

TextPart(t) == [kind |-> "text", href |-> "", text |-> t]

Anchor(h, t) == [kind |-> "a", href |-> h, text |-> t]

RECURSIVE PlainText(_, _)
\* decodeHtmlEntities(htmlContent): the tags go, the text of every part stays
PlainText(parts, i) ==
    IF i > Len(parts) THEN ""
    ELSE decodeHtmlEntities(parts[i].text) \o PlainText(parts, i + 1)

\* links.push({ href, text }) when the anchor has an href and both are non-empty
LinkOf(part, href, text) ==
    IF part.kind = "a" /\ Len(part.href) > 0 /\ Len(href) > 0 /\ Len(text) > 0
    THEN <<[href |-> href, text |-> text]>> ELSE <<>>

RECURSIVE LinksFrom(_, _)
extractLinksFromHtml(parts) == LinksFrom(parts, 1)
LinksFrom(parts, i) ==
    IF i > Len(parts) THEN <<>>
    ELSE LinkOf(parts[i], decodeHtmlEntities(parts[i].href),
                decodeHtmlEntities(Trim(StripTags(parts[i].text))))
         \o LinksFrom(parts, i + 1)

\* the href as processLink compares and stores it
NormalizeHref(href) == IF StartsWith(href, "/") THEN "https://www.theverge.com" \o href ELSE href

\* a set of seen URLs that is never consulted
AlreadySeenNever(href, seenUrls) == FALSE

\* seenUrls.has(href)
AlreadySeen(href, seenUrls) == href \in seenUrls

\* /—\s*\w+\s*$/ on the decoded context
DashWord(context) == TrailingWord(<<Lit(EmDash), Ws0>>, context)

\* the walk's accumulator: the URLs seen, the list built so far, and whether
\* an exception has left the block walk
EmptyWalk == [seen |-> {}, recs |-> <<>>, threw |-> FALSE]

\* a parser that never marks a recommendation as crowdsourced
CrowdsourcedNever(contributorName, dashWord, lc) == FALSE

\* isCrowdsourced, from the contributor, the dash word and the lower-cased context
Crowdsourced(contributorName, dashWord, lc) ==
    \/ contributorName # Null
    \/ dashWord # Null
    \/ Includes(lc, "community")
    \/ Includes(lc, "installer reader")

\* the object pushed onto recommendations
Recommendation(title, href, context, sectionName, contributorName, isCrowdsourced,
               dashWord, lc) ==
    [title |-> title,
     url |-> href,
     description |-> IF Len(context) > 10 THEN Substring(context, 0, 500) ELSE Null,
     isPrimaryLink |-> Includes(lc, "(link)"),
     isCrowdsourced |-> isCrowdsourced,
     contributorName |-> IF contributorName = Null /\ isCrowdsourced THEN dashWord
                         ELSE contributorName,
     sectionName |-> sectionName,
     category |-> guessCategory(title, context, href)]

\* processLink from the title check on; href is already in seenUrls in the source
pushLink(title, href, context, sectionName, contributorName, dashWord, lc, st) ==
    IF title = Null \/ isJunkTitle(title) THEN [st EXCEPT !.seen = @ \cup {href}]
    ELSE [st EXCEPT
            !.seen = @ \cup {href},
            !.recs = Append(@, Recommendation(title, href, context, sectionName,
                                   contributorName,
                                   Crowdsourced(contributorName, dashWord, lc),
                                   dashWord, lc))]

\* processLink from the seenUrls check on, for the normalised href
filterLink(href, text, context, sectionName, contributorName, st) ==
    IF AlreadySeen(href, st.seen) \/ shouldSkipUrl(href) THEN st
    ELSE IF isJunkTitle(text) THEN [st EXCEPT !.seen = @ \cup {href}]
    ELSE pushLink(extractBetterTitle(text, context, href), href, context, sectionName,
                  contributorName, DashWord(context), ToLower(context), st)

processLink(rawHref, text, context, sectionName, contributorName, st) ==
    IF Len(rawHref) = 0 THEN st
    ELSE filterLink(NormalizeHref(rawHref), text, context, sectionName, contributorName, st)

RECURSIVE WalkLinks(_, _, _, _, _, _)
\* for (const link of links) processLink(link.href, link.text, context, ...)
WalkLinks(links, i, context, sectionName, contributorName, st) ==
    IF i > Len(links) THEN st
    ELSE WalkLinks(links, i + 1, context, sectionName, contributorName,
                   processLink(links[i].href, links[i].text, context, sectionName,
                               contributorName, st))

RECURSIVE WalkArticleStops(_, _, _)
\* a fallback loop that ends at the first link that gives no recommendation
WalkArticleStops(links, i, st) ==
    IF i > Len(links) THEN st
    ELSE IF Len(processLink(links[i].href, links[i].text, links[i].text, Null, Null, st).recs)
            = Len(st.recs)
         THEN st
         ELSE WalkArticleStops(links, i + 1,
                  processLink(links[i].href, links[i].text, links[i].text, Null, Null, st))

RECURSIVE WalkArticle(_, _, _)
\* the fallback loop: each link's own text is its context
WalkArticle(links, i, st) ==
    IF i > Len(links) THEN st
    ELSE WalkArticle(links, i + 1,
                     processLink(links[i].href, links[i].text, links[i].text, Null, Null, st))

\* a paragraph's or list item's content; isNull: the JSON holds null in its place
Content(parts) == [isNull |-> FALSE, parts |-> parts]

NullContent == [isNull |-> TRUE, parts |-> <<>>]

\* /&mdash;\s*(?:&nbsp;)?(\w+)\s*$/ on the raw markup, which must end in text
ContributorOf(parts) ==
    IF Len(parts) > 0 /\ parts[Len(parts)].kind = "text"
    THEN TrailingWord(<<Lit("&mdash;"), Ws0, Opt("&nbsp;")>>, parts[Len(parts)].text)
    ELSE Null

RECURSIVE WalkContents(_, _, _, _, _)
\* the loop over paragraphContents (withContributor) or items
WalkContents(contents, i, sectionName, withContributor, st) ==
    IF i > Len(contents) \/ st.threw THEN st
    ELSE IF contents[i].isNull THEN [st EXCEPT !.threw = TRUE]
    ELSE WalkContents(contents, i + 1, sectionName, withContributor,
             WalkLinks(extractLinksFromHtml(contents[i].parts), 1,
                       PlainText(contents[i].parts, 1), sectionName,
                       IF withContributor THEN ContributorOf(contents[i].parts) ELSE Null,
                       st))

\* a block of the payload; isNull: the JSON holds null in its place
Block(typename, html, contents) ==
    [isNull |-> FALSE, typename |-> typename, html |-> html, contents |-> contents]

NullBlock == [isNull |-> TRUE, typename |-> "", html |-> "", contents |-> <<>>]

RECURSIVE CollapseSpaces(_)
\* replace(/\s+/g, "_")
CollapseSpaces(s) ==
    IF Len(s) = 0 THEN ""
    ELSE IF IsSpace(Char(s, 1))
         THEN "_" \o CollapseSpaces(SubSeq(s, 1 + RunLen(s, 1, "s"), Len(s)))
         ELSE Char(s, 1) \o CollapseSpaces(SubSeq(s, 2, Len(s)))

\* a section label that is the heading as it stands
SectionOfRaw(heading) == heading

SectionOf(heading) == CollapseSpaces(ToLower(decodeHtmlEntities(heading)))

RECURSIVE WalkBlocks(_, _, _, _)
\* for (const block of blocks) { ... } with currentSection threaded through; a
\* paragraph block walks paragraphContents with the contributor, a list block items
WalkBlocks(blocks, i, currentSection, st) ==
    IF i > Len(blocks) \/ st.threw THEN st
    ELSE IF blocks[i].isNull THEN [st EXCEPT !.threw = TRUE]
    ELSE IF blocks[i].typename = "CoreHeadingBlockType"
         THEN WalkBlocks(blocks, i + 1, SectionOf(blocks[i].html), st)
    ELSE IF blocks[i].typename \in {"CoreParagraphBlockType", "CoreListBlockType"}
         THEN WalkBlocks(blocks, i + 1, currentSection,
                         WalkContents(blocks[i].contents, 1, currentSection,
                                      blocks[i].typename = "CoreParagraphBlockType", st))
    ELSE WalkBlocks(blocks, i + 1, currentSection, st)

FirstOf(responses, hits) == IF hits = {} THEN <<>> ELSE responses[MinOf(hits)]

\* the blocks of the first response whose node.blocks is a non-empty array; <<>> when none
FindBlocks(responses) == FirstOf(responses, {k \in DOMAIN responses : Len(responses[k]) > 0})

WalkFound(blocks) ==
    IF Len(blocks) > 0 THEN WalkBlocks(blocks, 1, "intro", EmptyWalk) ELSE EmptyWalk

\* the structured strategy: the walk over the payload's blocks
StructuredWalk(doc) ==
    IF doc.nextData = "json" THEN WalkFound(FindBlocks(doc.responses)) ELSE EmptyWalk

\* the fallback strategy, continuing with the list and the seen URLs it is handed
FallbackWalk(doc, st) ==
    IF doc.hasArticle THEN WalkArticle(extractLinksFromHtml(doc.article), 1, st) ELSE st

\* a parser that returns what the block walk built and has no fallback
ChooseStrategyNoFallback(doc, st) == st.recs

\* the structured list when the walk completed and found something; otherwise the
\* fallback runs on what the walk left behind
ChooseStrategy(doc, st) ==
    IF ~st.threw /\ Len(st.recs) > 0 THEN st.recs ELSE FallbackWalk(doc, st).recs

\* A page: nextData is "absent" (no script element), "invalid" (JSON.parse throws) or
\* "json"; responses holds node.blocks of each hydration response (<<>> when it has
\* none); article is the markup of the first article element.
parseNewsletterContent(doc) == ChooseStrategy(doc, StructuredWalk(doc))

(***************************************************************************)
(* The pages the parser is run on                                          *)
(***************************************************************************)

\* the longest block list of a payload
MaxBlocks == 2

aWidget == Anchor("https://apps.apple.com/app/widget", "Widget")

aCoolRel == Anchor("/tech/cool-thing", "Cool thing")

aCoolAbs == Anchor("https://www.theverge.com/tech/cool-thing", "here")

aShare == Anchor("https://twitter.com/intent/tweet?text=hi", "Share this find")

aArc == Anchor("https://arc.net/", "Arc")

aCoolFull == Anchor("https://www.theverge.com/tech/cool-thing", "Cool thing")

cWidget == Content(<<TextPart("Check out "), aWidget, TextPart(" (link)")>>)

cCool == Content(<<aCoolRel, TextPart(" from the community &mdash; Sam")>>)

cHere == Content(<<TextPart("Widget Pro (link) "), aCoolAbs>>)

cShare == Content(<<aShare, TextPart(" and "), aWidget, TextPart(" or "), aArc>>)

ParagraphType == "CoreParagraphBlockType"

BlockPool ==
    << Block("CoreHeadingBlockType", "Apps &amp;  Tools", <<>>),
       Block(ParagraphType, "", <<cWidget>>),
       Block(ParagraphType, "", <<cCool, cHere>>),
       Block(ParagraphType, "", <<cHere>>),
       Block(ParagraphType, "", <<cWidget, NullContent>>),
       Block("CoreListBlockType", "", <<cShare>>),
       Block("CoreEmbedBlockType", "", <<>>),
       NullBlock >>

RECURSIVE BlockLists(_)
\* every list of at most n blocks of the pool
BlockLists(n) ==
    IF n = 0 THEN {<<>>}
    ELSE BlockLists(n - 1)
         \cup {Append(bs, BlockPool[k]) : bs \in BlockLists(n - 1), k \in DOMAIN BlockPool}

ArticlePool ==
    << <<aCoolRel>>,
       <<aWidget, aCoolAbs, aCoolRel>>,
       <<aShare, TextPart("see "), aWidget, aWidget, aArc>>,
       <<aCoolAbs, aCoolFull>>,
       <<TextPart("Check out "), aWidget, TextPart(" (link)")>> >>

Page(nextData, responses, hasArticle, article) ==
    [nextData |-> nextData, responses |-> responses, hasArticle |-> hasArticle,
     article |-> article]

Articles ==
    {[has |-> FALSE, parts |-> <<>>]}
    \cup {[has |-> TRUE, parts |-> ArticlePool[k]] : k \in DOMAIN ArticlePool}

Docs ==
    {Page(nd, <<>>, a.has, a.parts) : nd \in {"absent", "invalid", "json"}, a \in Articles}
    \cup {Page("json", rs, a.has, a.parts) :
            rs \in {<<bs>> : bs \in BlockLists(MaxBlocks) \ {<<>>}}
                   \cup {<<<<>>, <<BlockPool[k]>> >> : k \in DOMAIN BlockPool},
            a \in Articles}

(***************************************************************************)
(* Title and date extractors                                               *)
(*                                                                         *)
(* Beside the parser's pieces a fetched page carries: ogTitle,             *)
(* twitterTitle, titleTag (the content of each element, Null when the page *)
(* has none), publishedAt (the first truthy of the payload's timestamp     *)
(* fields), timeDatetime and metaPublished (the attribute values).         *)
(***************************************************************************)

\* new Date(s) as an ISO string; Null for an Invalid Date
ParseDate(s) ==
    IF s = Null THEN Null
    ELSE IF RegexTest(<<Bol, DigRep(4, 4), Lit("-"), DigRep(2, 2), Lit("-"), DigRep(2, 2), Eol>>, s)
    THEN s \o "T00:00:00.000Z"
    ELSE IF RegexTest(<<Bol, DigRep(4, 4), Lit("-"), DigRep(2, 2), Lit("-"), DigRep(2, 2), Lit("T"),
                        DigRep(2, 2), Lit(":"), DigRep(2, 2), Lit(":"), DigRep(2, 2), Lit("."),
                        DigRep(3, 3), Lit("Z"), Eol>>, s)
    THEN s
    ELSE Null

\* the date when it is valid, the next source otherwise
DateOrElse(date, other) == IF date # Null THEN date ELSE other

\* the payload's timestamp first, then the time element, then the meta tag
extractPublishDate(page) ==
    DateOrElse(IF page.nextData = "json" THEN ParseDate(page.publishedAt) ELSE Null,
               DateOrElse(ParseDate(page.timeDatetime), ParseDate(page.metaPublished)))

\* [|\-EnDash EmDash] after decoding
Separator == AltLit(<<"|", "-", EmDash>>)

\* the suffix patterns: <<pattern, whether it has the i flag>>
SuffixPatterns ==
    << <<<<Ws0, Separator, Ws0, Lit("youtube"), Eol>>, TRUE>>,
       <<<<Ws0, Separator, Ws0, Lit("the verge"), Eol>>, TRUE>>,
       <<<<Ws0, Separator, Ws0, Lit("netflix"), Eol>>, TRUE>>,
       <<<<Ws0, Separator, Ws0, Lit("apple"), Eol>>, TRUE>>,
       <<<<Ws0, Separator, Ws0, Lit("spotify"), Eol>>, TRUE>>,
       <<<<Ws0, Separator, Ws0, Lit("steam"), Eol>>, TRUE>>,
       <<<<Ws0, Separator, Ws0, Lit("amazon.com"), Eol>>, TRUE>>,
       <<<<Ws0, Separator, Ws0, Lit("imdb"), Eol>>, TRUE>>,
       <<<<Ws0, Separator, Ws0, Lit("rotten tomatoes"), Eol>>, TRUE>>,
       <<<<Ws0, Separator, Ws0, Lit("wikipedia"), Eol>>, TRUE>>,
       <<<<Ws0, Separator, Ws0, Lit("reddit"), Eol>>, TRUE>>,
       <<<<Ws0, Lit("on the app store"), Eol>>, TRUE>>,
       <<<<Ws0, Lit("- apps on google play"), Eol>>, TRUE>>,
       <<<<Ws0, Separator, Ws0, Upper1, LetterRep(2, 20), Eol>>, FALSE>> >>

\* the title up to the leftmost position from which the pattern reaches the end
CutAt(title, starts) == IF starts = {} THEN title ELSE SubSeq(title, 1, MinOf(starts) - 1)

\* the positions of t from which the pattern matches up to the end
SuffixStarts(pat, t) == {i \in 1..(Len(t) + 1) : (Len(t) + 1) \in MatchSeq(pat, t, i)}

\* title.replace(pattern, "") for a pattern ending in $
StripSuffix(title, pat, ignoreCase) ==
    CutAt(title, SuffixStarts(pat, IF ignoreCase THEN ToLower(title) ELSE title))

RECURSIVE CleanFrom(_, _)
\* for (const pattern of suffixPatterns) cleaned = cleaned.replace(pattern, ""),
\* from the k-th pattern on; nothing is left to strip from an empty title
CleanFrom(title, k) ==
    IF k > Len(SuffixPatterns) \/ Len(title) = 0 THEN title
    ELSE CleanFrom(StripSuffix(title, SuffixPatterns[k][1], SuffixPatterns[k][2]), k + 1)

cleanTitle(title) == Trim(CleanFrom(title, 1))

\* title && title.length > 2
LongEnough(title) == IF Len(title) > 2 THEN title ELSE Null

\* a candidate of extractPageTitle: decoded, trimmed, longer than 2 characters
TitleCandidate(raw) ==
    IF raw # Null /\ Len(raw) > 0 THEN LongEnough(Trim(decodeHtmlEntities(raw))) ELSE Null

CleanOrNull(title) == IF title # Null THEN cleanTitle(title) ELSE Null

\* the first candidate there is
FirstCandidate(a, b) == IF a # Null THEN a ELSE b

\* og:title first, then twitter:title, then the title element
extractPageTitle(page) ==
    CleanOrNull(FirstCandidate(TitleCandidate(page.ogTitle),
                    FirstCandidate(TitleCandidate(page.twitterTitle),
                        TitleCandidate(IF page.titleTag # Null /\ ~Includes(page.titleTag, "<")
                                       THEN page.titleTag ELSE Null))))

(***************************************************************************)
(* Archive-index harvester                                                 *)
(***************************************************************************)

\* the href of an issue link on an archive page
IssueUrlPattern ==
    <<Bol, Lit("http"), Opt("s"), Lit("://www.theverge.com/"),
      Alt(<< <<DigRep(4, 4), Lit("/"), DigRep(1, 2), Lit("/"), DigRep(1, 2), Lit("/"), Dig1,
               Lit("/"), Any1>>,
             <<Lit("installer-newsletter/"), Dig1, Lit("/"), Any1>> >>),
      Eol>>

PadStart2(s) == IF Len(s) < 2 THEN "0" \o s ELSE s

\* the run of digits that starts at position i
Digits(url, i) == SubSeq(url, i, i + RunLen(url, i, "d") - 1)

\* yyyy-mm-dd from the year at position y and the month at position m
DateFrom(url, y, m, monthLen) ==
    SubSeq(url, y, y + 3) \o "-" \o PadStart2(SubSeq(url, m, m + monthLen - 1))
    \o "-" \o PadStart2(Digits(url, m + monthLen + 1))

DateAt(url, i) == DateFrom(url, i + 1, i + 6, RunLen(url, i + 6, "d"))

DateIn(url, starts) == IF starts = {} THEN Null ELSE DateAt(url, MinOf(starts))

\* the date in the URL's /yyyy/m/d/ segment as yyyy-mm-dd; Null when it has none
UrlDate(url) ==
    DateIn(url, {i \in 1..Len(url) :
                   MatchSeq(<<Lit("/"), DigRep(4, 4), Lit("/"), DigRep(1, 2), Lit("/"),
                              DigRep(1, 2), Lit("/")>>, url, i) # {}})

RECURSIVE ArchiveFrom(_, _, _)
\* the entry of an issue link not seen before, unless its title is too short or
\* marks a comment or see-all link
ArchiveEntry(url, title) ==
    IF Len(title) < 15 \/ Includes(title, "Comment") \/ Includes(title, "See All") THEN <<>>
    ELSE <<[title |-> title, url |-> url, date |-> UrlDate(url)]>>

\* the loop over the anchors of the page, with the URLs seen so far
ArchiveFrom(anchors, i, seenUrls) ==
    IF i > Len(anchors) THEN <<>>
    ELSE IF ~(anchors[i].kind = "a" /\ RegexTest(IssueUrlPattern, anchors[i].href)
              /\ Len(anchors[i].text) > 0 /\ ~Includes(anchors[i].text, "<"))
            \/ anchors[i].href \in seenUrls
    THEN ArchiveFrom(anchors, i + 1, seenUrls)
    ELSE ArchiveEntry(anchors[i].href, decodeHtmlEntities(Trim(anchors[i].text)))
         \o ArchiveFrom(anchors, i + 1, seenUrls \cup {anchors[i].href})

parseArchivePage(anchors) == ArchiveFrom(anchors, 1, {})

(***************************************************************************)
(* Part 2.  The site                                                       *)
(*                                                                         *)
(* What the source site serves is not under the program's control: a fetch *)
(* of a URL returns any of the versions of the page at that URL.           *)
(***************************************************************************)

SitePage(doc, ogTitle, twitterTitle, titleTag, publishedAt, timeDatetime, metaPublished) ==
    [nextData |-> doc.nextData, responses |-> doc.responses, hasArticle |-> doc.hasArticle,
     article |-> doc.article, ogTitle |-> ogTitle, twitterTitle |-> twitterTitle,
     titleTag |-> titleTag, publishedAt |-> publishedAt, timeDatetime |-> timeDatetime,
     metaPublished |-> metaPublished]

urlDated == "https://www.theverge.com/2024/1/5/24012345/installer-20"

urlUndated == "https://www.theverge.com/installer-newsletter/123/installer-21"

\* a URL of another site that mentions the source site in its query string
urlForeign == "https://example.com/?ref=theverge.com"

urlOther == "https://example.com/installer"

\* the page a recommendation links to
urlWidget == "https://apps.apple.com/app/widget"

SitePages ==
    << SitePage(Page("json", <<<<BlockPool[1], BlockPool[2]>>>>, TRUE, <<aCoolRel>>),
                "Installer No. 20 - The Verge", Null, "Installer", "2024-01-05T13:00:00.000Z",
                Null, Null),
       SitePage(Page("json", <<<<BlockPool[3]>>>>, FALSE, <<>>),
                "", "Installer No. 21 | The Verge", Null, Null, "2024-01-12", Null),
       SitePage(Page("invalid", <<>>, TRUE, <<aWidget, aCoolAbs, aArc>>),
                Null, Null, "Installer No. 21 &amp; more", "soon", Null,
                "2024-01-13T09:30:00.000Z"),
       SitePage(Page("absent", <<>>, FALSE, <<>>), Null, Null, Null, Null, Null, Null),
       SitePage(Page("absent", <<>>, FALSE, <<>>), "Widget: home screen widgets", Null, Null,
                Null, Null, Null) >>

\* the versions of the page at a URL
PagesAt(url) ==
    CASE url = urlDated -> {1}
      [] url = urlUndated -> {2, 3}
      [] url = urlWidget -> {5}
      [] OTHER -> {4}

\* the archive index of the site, one list of anchors per archive page
ArchiveSite ==
    << << Anchor(urlDated, "12 Comments"),
          Anchor(urlUndated, " Installer No. 21: more &amp; more "),
          Anchor(urlDated, "Installer No. 20: the best apps"),
          Anchor(urlUndated, "See All Installer issues"),
          Anchor("https://www.theverge.com/about", "About the Verge newsletter") >>,
       << Anchor(urlDated, "Installer No. 20: the best apps of the week") >> >>

\* what the parser and the extractors make of each page
Fetched ==
    [p \in DOMAIN SitePages |->
       [recommendations |-> parseNewsletterContent(SitePages[p]),
        extractedDate |-> extractPublishDate(SitePages[p]),
        pageTitle |-> extractPageTitle(SitePages[p])]]

\* what the harvester makes of each archive page
ArchiveLists == [n \in DOMAIN ArchiveSite |-> parseArchivePage(ArchiveSite[n])]

\* past the last page the site lists nothing and the harvester finds nothing
ArchiveListAt(pageNum) ==
    IF pageNum \in DOMAIN ArchiveLists THEN ArchiveLists[pageNum] ELSE <<>>

(***************************************************************************)
(* The store                                                               *)
(*                                                                         *)
(* A table is the sequence of its rows in id order; no operation of the    *)
(* scraper deletes a row, so the id of a row is its position.              *)
(***************************************************************************)

\* new Date() at the time of a write
Now == "now"

\* the rank of a character of an ISO timestamp in code-unit order
CharRank(c) == CHOOSE n \in 1..15 : Char("-.0123456789:TZ", n) = c

RECURSIVE DateLess(_, _)
\* a is an earlier instant than b, for ISO timestamps
DateLess(a, b) ==
    IF Len(b) = 0 THEN FALSE
    ELSE IF Len(a) = 0 THEN TRUE
    ELSE IF Char(a, 1) = Char(b, 1) THEN DateLess(SubSeq(a, 2, Len(a)), SubSeq(b, 2, Len(b)))
    ELSE CharRank(Char(a, 1)) < CharRank(Char(b, 1))

\* row x sorts strictly before row y under orderBy date desc (null sorts last)
DateDescBefore(x, y) == x.date # Null /\ (y.date = Null \/ DateLess(y.date, x.date))

\* the row of table Issue with this url, 0 when there is none
IssueByUrl(url) ==
    LET hits == {i \in DOMAIN issues : issues[i].url = url}
    IN  IF hits = {} THEN 0 ELSE CHOOSE i \in hits : \A j \in hits : i <= j

\* a table without the unique index
UniqueViolationNever(url) == FALSE

\* the unique index on Issue.url rejects the insert
UniqueViolation(url) == \E i \in DOMAIN issues : issues[i].url = url

\* a lookup that finds no row
ExistingRecNever(issueId, url) == FALSE

\* recommendation.findFirst({ where: { issueId, url } }) finds a row
ExistingRec(issueId, url) ==
    \E k \in DOMAIN recs : recs[k].issueId = issueId /\ recs[k].url = url

\* the snapshot of a row that findMany hands to the run
Snapshot(i) == [id |-> i, url |-> issues[i].url, date |-> issues[i].date]

\* no where clause: every row
AllIssueIds == DOMAIN issues

\* where: { scrapedAt: null }
UnscrapedIds == {i \in DOMAIN issues : issues[i].scrapedAt = Null}

\* where: { date: null }
UndatedIds == {i \in DOMAIN issues : issues[i].date = Null}

\* the results orderBy: { date: "desc" } may return for these rows; rows with the
\* same date come in any order
DateDescOrders(ids) ==
    {[k \in DOMAIN f |-> Snapshot(f[k])] :
       f \in {g \in [1..Cardinality(ids) -> ids] :
                \A a, b \in 1..Cardinality(ids) :
                   a < b => g[a] # g[b] /\ ~DateDescBefore(issues[g[b]], issues[g[a]])}}

RECURSIVE IdAscOrder(_)
\* orderBy: { id: "asc" }
IdAscOrder(ids) ==
    IF ids = {} THEN <<>>
    ELSE LET i == CHOOSE x \in ids : \A y \in ids : x <= y
         IN  <<Snapshot(i)>> \o IdAscOrder(ids \ {i})

\* take: limit, where <<>> is an undefined limit
Take(rows, limit) ==
    IF limit = <<>> THEN rows ELSE SubSeq(rows, 1, Min(limit[1], Len(rows)))

\* the characters of a title in code order (ASCII without the quotes, the
\* backslash and the backtick)
Ascii ==
    " !#$%&()*+,-./0123456789:;<=>?@ABCDEFGHIJKLMNOPQRSTUVWXYZ[]^_abcdefghijklmnopqrstuvwxyz{|}~"

CharCode(c) == CHOOSE n \in 1..Len(Ascii) : Char(Ascii, n) = c

RECURSIVE StrLess(_, _)
\* a sorts before b in the BINARY collation of a TEXT column
StrLess(a, b) ==
    IF Len(b) = 0 THEN FALSE
    ELSE IF Len(a) = 0 THEN TRUE
    ELSE IF Char(a, 1) = Char(b, 1) THEN StrLess(SubSeq(a, 2, Len(a)), SubSeq(b, 2, Len(b)))
    ELSE CharCode(Char(a, 1)) < CharCode(Char(b, 1))

\* select: { id, title, url } of a recommendation row
RecSnapshot(k) == [id |-> k, title |-> recs[k].title, url |-> recs[k].url]

RECURSIVE TitleAscOrders(_)
\* the results orderBy: { title: "asc" } may return for these rows; rows with the
\* same title come in any order
TitleAscOrders(ids) ==
    IF ids = {} THEN {<<>>}
    ELSE UNION {{<<RecSnapshot(m)>> \o rest : rest \in TitleAscOrders(ids \ {m})} :
                  m \in {x \in ids : \A y \in ids : ~StrLess(recs[y].title, recs[x].title)}}

\* the filter of backfillTitles on a row: a short or vague title
NeedsBetterTitle(row) ==
    \/ Len(row.title) < 30
    \/ ToLower(row.title) \in {"link", "here", "this", "check it out", "watch", "listen", "read"}
    \/ (StartsWith(ToLower(row.title), "the ") /\ Len(row.title) < 20)

\* [^/]+\/?$ on what follows the scheme
BareHost(rest) ==
    Len(rest) > 0 /\ ~StartsWith(rest, "/") /\ IndexOf(rest, "/", 0) \in {-1, Len(rest) - 1}

shouldSkipForTitleExtraction(url) ==
    \/ StartsWith(url, "mailto:")
    \/ StartsWith(url, "tel:")
    \/ StartsWith(url, "javascript:")
    \/ \E ext \in {"pdf", "zip", "dmg", "exe", "mp3", "mp4", "mov", "avi"} :
          EndsWith(ToLower(url), "." \o ext)
    \/ \E scheme \in {"http://", "https://"} :
          StartsWith(url, scheme) /\ BareHost(SubSeq(url, Len(scheme) + 1, Len(url)))

\* new Set(s.split(/\s+/)): the runs of non-space characters, and "" when s is empty
\* or begins or ends with a space
Words(s) ==
    {SubSeq(s, i, i + RunLen(s, i, "S") - 1) :
       i \in {j \in 1..Len(s) : ~IsSpace(Char(s, j)) /\ (j = 1 \/ IsSpace(Char(s, j - 1)))}}
    \cup (IF Len(s) = 0 \/ IsSpace(Char(s, 1)) \/ IsSpace(Char(s, Len(s))) THEN {""} ELSE {})

\* intersection.length / Math.max(words1.size, words2.size) as <<numerator, denominator>>
WordOverlap(words1, words2) ==
    <<Cardinality(words1 \cap words2), Max(Cardinality(words1), Cardinality(words2))>>

SimilarityOf(str1, str2, longer, shorter) ==
    IF Len(longer) = 0 THEN <<1, 1>>
    ELSE IF Includes(longer, shorter) THEN <<Len(shorter), Len(longer)>>
    ELSE WordOverlap(Words(str1), Words(str2))

\* the ratio it returns, as <<numerator, denominator>>
calculateSimilarity(str1, str2) ==
    SimilarityOf(str1, str2,
                 IF Len(str1) > Len(str2) THEN str1 ELSE str2,
                 IF Len(str1) > Len(str2) THEN str2 ELSE str1)

\* similarity < 0.8
Different(similarity) == similarity[1] * 10 < similarity[2] * 8

\* backfillTitles writes the extracted title: it is longer, below 200 characters
\* and different enough
ShouldUpdateTitle(title, extractedTitle) ==
    /\ extractedTitle # Null
    /\ Len(extractedTitle) > Len(title)
    /\ Len(extractedTitle) < 200
    /\ Different(calculateSimilarity(ToLower(title), ToLower(extractedTitle)))

(***************************************************************************)
(* Requests                                                                *)
(*                                                                         *)
(* Each invocation of POST runs on its own; the invocations interleave at  *)
(* their awaits.  A record of req holds the locals of one invocation and   *)
(* of the scraper function it is in.                                       *)
(***************************************************************************)

\* the invocations that can be in progress at the same time
Workers == {1, 2}

\* how many POST requests the endpoint receives in a run of the model
MaxRequests == 2

\* scraperConfig.delayBetweenRequests, in ms
DelayBetweenRequests == 2000

\* the settle delays after page.goto, in ms
ArchiveSettle == 1000

IssueSettle == 2000

BackfillSettle == 1500

\* the delay of backfillTitles between two rows, in ms
TitleDelay == 1500

\* limit || 50 of the endpoint
TitleLimit == 50

\* the safety limit of scrapeArchive
maxPages == 20

Actions == {"archive", "issues", "backfill-dates", "backfill-titles", "single-url", "all"}

UrlInputs == {Null, urlUndated, urlForeign, urlOther}

LimitInputs == {<<>>, <<1>>}

Idle ==
    [pc |-> "idle", action |-> Null, url |-> Null, limit |-> <<>>, fn |-> Null,
     browser |-> FALSE, throwing |-> FALSE, status |-> 0,
     batch |-> <<>>, atStart |-> {}, i |-> 0, page |-> 0, k |-> 0, issueId |-> 0,
     snapDate |-> Null, snapScrapedAt |-> Null, added |-> 0, again |-> FALSE,
     recommendations |-> <<>>, extractedDate |-> Null, extractedTitle |-> Null,
     found |-> 0, scraped |-> 0, recsAdded |-> 0, updated |-> 0, skipped |-> 0,
     itemErrs |-> 0, topErrs |-> 0, archFound |-> 0, archErrs |-> 0,
     pageNum |-> 0, allIssues |-> <<>>, sinceFetch |-> 0, lastGap |-> 0]

\* the response leaves the endpoint
Respond(r, status) == [r EXCEPT !.pc = "responded", !.status = status]

\* the locals of a scraper function at its first line
Enter(r, fn, pc) ==
    [r EXCEPT !.fn = fn, !.pc = pc, !.browser = FALSE, !.batch = <<>>, !.atStart = {},
              !.i = 0, !.page = 0, !.k = 0, !.issueId = 0, !.snapDate = Null, !.snapScrapedAt = Null,
              !.added = 0, !.again = FALSE, !.skipped = 0, !.recommendations = <<>>,
              !.extractedDate = Null, !.extractedTitle = Null,
              !.found = IF fn = "single" THEN 1 ELSE 0, !.scraped = 0, !.recsAdded = 0,
              !.updated = 0, !.itemErrs = 0, !.topErrs = 0, !.pageNum = 0,
              !.allIssues = <<>>, !.sinceFetch = 0, !.lastGap = 0]

\* the scraper function returns or throws to its caller: scrapeAll goes on with
\* scrapeIssues() after scrapeArchive, POST answers 200 with the result or 500
Return(r) ==
    IF r.throwing THEN Respond(r, 500)
    ELSE IF r.action = "all" /\ r.fn = "archive"
    THEN [Enter(r, "issues", "findMany") EXCEPT !.limit = <<>>, !.archFound = r.found,
                                                !.archErrs = r.itemErrs + r.topErrs]
    ELSE Respond(r, 200)

\* the finally block: browser.close() is awaited when a browser was launched
Finally(r) == IF r.browser THEN [r EXCEPT !.pc = "close"] ELSE Return(r)

\* the loop of scrapeIssues and of backfillDates moves to its next row, after
\* delay(delayBetweenRequests) when the row went through and was not the last
NextItem(r, delayed) ==
    IF r.i < Len(r.batch)
    THEN [r EXCEPT !.i = @ + 1, !.pc = "goto", !.page = 0, !.k = 0, !.issueId = 0,
                   !.snapDate = Null, !.added = 0, !.again = FALSE,
                   !.recommendations = <<>>,
                   !.extractedDate = Null,
                   !.sinceFetch = @ + (IF delayed THEN DelayBetweenRequests ELSE 0)]
    ELSE Finally(r)

\* scrapeArchive leaves its page loop: issuesFound is set and the upserts begin
ToUpserts(r) ==
    LET r2 == [r EXCEPT !.found = Len(r.allIssues), !.k = 1, !.pc = "upsert"]
    IN  IF Len(r.allIssues) = 0 THEN Finally(r2) ELSE r2

RECURSIVE TitleItem(_)
\* the loop of backfillTitles at row i: a row whose URL is skipped is counted and
\* passed over without a fetch and without a delay
TitleItem(r) ==
    IF r.i > Len(r.batch) THEN Finally(r)
    ELSE IF shouldSkipForTitleExtraction(r.batch[r.i].url)
    THEN TitleItem([r EXCEPT !.skipped = @ + 1, !.i = @ + 1])
    ELSE [r EXCEPT !.pc = "goto"]

\* the loop of backfillTitles moves to its next row, after delay(1500) when the
\* row went through and was not the last
NextTitle(r, delayed) ==
    TitleItem([r EXCEPT !.i = @ + 1, !.page = 0, !.extractedTitle = Null,
                        !.sinceFetch = @ + (IF delayed /\ r.i < Len(r.batch) THEN TitleDelay
                                            ELSE 0)])

\* a catch that records the failure of an issue and leaves the loop
IssueFailedAborts(r) == Finally([r EXCEPT !.itemErrs = @ + 1])

\* the catch inside the loop of scrapeIssues: the failure of the issue is recorded
\* and the loop goes on with the next issue, without a delay
IssueFailed(r) == NextItem([r EXCEPT !.itemErrs = @ + 1], FALSE)

\* an await of the function rejects: the innermost enclosing catch runs
Fail(r, at) ==
    CASE r.fn = "archive" /\ at = "goto" -> ToUpserts([r EXCEPT !.itemErrs = @ + 1])
      [] r.fn = "archive" /\ at # "goto" -> Finally([r EXCEPT !.topErrs = @ + 1])
      [] r.fn = "issues" /\ at \in {"goto", "db"} -> IssueFailed(r)
      [] r.fn = "issues" /\ at \notin {"goto", "db"} -> Finally([r EXCEPT !.topErrs = @ + 1])
      [] r.fn = "single" -> Finally([r EXCEPT !.topErrs = @ + 1])
      [] r.fn = "backfillDates" /\ at \in {"goto", "db"} ->
            NextItem([r EXCEPT !.itemErrs = @ + 1], FALSE)
      [] r.fn = "backfillTitles" /\ at \in {"goto", "db"} ->
            NextTitle([r EXCEPT !.itemErrs = @ + 1], FALSE)
      [] OTHER -> Finally([r EXCEPT !.throwing = TRUE])

(***************************************************************************)
(* The scrape endpoint and the scraper functions                           *)
(***************************************************************************)

\* extractPageTitle(html) || `Installer - ${date}`, the date up to its "T"
ExtractedTitle(pageTitle, extractedDate) ==
    IF pageTitle # Null THEN pageTitle
    ELSE IF extractedDate # Null
    THEN "Installer - " \o SubSeq(extractedDate, 1, IndexOf(extractedDate, "T", 0))
    ELSE "Installer - Unknown"

\* the loop over the parsed recommendations begins; again: this page of this issue
\* went through the loop before
ToRecLoop(r) ==
    IF Len(r.recommendations) = 0
    THEN [r EXCEPT !.k = 0, !.pc = "mark", !.again = <<r.issueId, r.page>> \in persisted]
    ELSE [r EXCEPT !.k = 1, !.pc = "findFirst",
                   !.again = <<r.issueId, r.page>> \in persisted]

\* the page whose loop over the parsed recommendations has just ended, if any
Done(r) == IF r.pc = "mark" THEN {<<r.issueId, r.page>>} ELSE {}

\* a loop over the parsed recommendations that ends after the first of them
AfterRecStops(r) == [r EXCEPT !.pc = "mark"]

\* the loop over the parsed recommendations moves on
AfterRec(r) ==
    IF r.k < Len(r.recommendations) THEN [r EXCEPT !.k = @ + 1, !.pc = "findFirst"]
    ELSE [r EXCEPT !.pc = "mark"]

\* the variables of the parser run and of the scraper
pvars == <<pdoc, pout, pdone>>

cvars == <<crun>>

tvars == <<tags, recTags, tagReq>>

svars == <<issues, recs, req, started, persisted>>

rvars == <<failing>>

avars == <<aiReq>>

vars ==
    <<pdoc, pout, pdone, crun, tags, recTags, tagReq, issues, recs, req, started, persisted,
      failing, aiReq>>

\* POST /api/scrape up to the first await of the scraper function it calls
Post(w) ==
    /\ req[w].pc = "idle"
    /\ started < MaxRequests
    /\ started' = started + 1
    /\ \E authed \in BOOLEAN, action \in Actions, url \in UrlInputs, limit \in LimitInputs :
          /\ action # "single-url" => url = Null
          /\ action # "issues" => limit = <<>>
          /\ LET r == [Idle EXCEPT !.action = action, !.url = url, !.limit = limit]
             IN  req' = [req EXCEPT ![w] =
                    IF ~authed THEN Respond(r, 401)
                    ELSE CASE action = "archive" -> Enter(r, "archive", "launch")
                           [] action = "issues" -> Enter(r, "issues", "findMany")
                           [] action = "backfill-dates" -> Enter(r, "backfillDates", "findMany")
                           [] action = "backfill-titles" ->
                                [Enter(r, "backfillTitles", "findMany")
                                   EXCEPT !.limit = <<TitleLimit>>]
                           [] action = "single-url" ->
                                IF url = Null THEN Respond(r, 400)
                                ELSE IF ~Includes(url, "theverge.com")
                                THEN Respond([Enter(r, "single", "idle") EXCEPT !.topErrs = 1], 200)
                                ELSE Enter(r, "single", "launch")
                           [] OTHER -> Enter(r, "archive", "launch")]
    /\ UNCHANGED <<issues, recs, persisted, pvars, cvars, tvars, rvars, avars>>

\* chromium.launch, newContext and newPage
Launch(w) ==
    /\ req[w].pc = "launch"
    /\ req' = [req EXCEPT ![w] =
          CASE req[w].fn = "archive" -> [@ EXCEPT !.browser = TRUE, !.pageNum = 1, !.pc = "goto"]
            [] req[w].fn = "single" -> [@ EXCEPT !.browser = TRUE, !.pc = "goto"]
            [] req[w].fn = "backfillTitles" -> TitleItem([@ EXCEPT !.browser = TRUE, !.i = 1])
            [] OTHER -> [@ EXCEPT !.browser = TRUE, !.i = 1, !.pc = "goto"]]
    /\ UNCHANGED <<issues, recs, started, persisted, pvars, cvars, tvars, rvars, avars>>

\* scrapeIssues: findMany of the unscraped issues
FindUnscraped(w) ==
    /\ req[w].pc = "findMany"
    /\ req[w].fn = "issues"
    /\ \E rows \in DateDescOrders(UnscrapedIds) :
          LET batch == Take(rows, req[w].limit)
              r == [req[w] EXCEPT !.batch = batch, !.found = Len(batch),
                                  !.atStart = {i \in DOMAIN issues : issues[i].scrapedAt = Null}]
          IN  req' = [req EXCEPT ![w] =
                 IF Len(batch) = 0 THEN Return(r) ELSE [r EXCEPT !.pc = "launch"]]
    /\ UNCHANGED <<issues, recs, started, persisted, pvars, cvars, tvars, rvars, avars>>

\* backfillDates: findMany of the issues without a date
FindUndated(w) ==
    /\ req[w].pc = "findMany"
    /\ req[w].fn = "backfillDates"
    /\ LET batch == IdAscOrder(UndatedIds)
           r == [req[w] EXCEPT !.batch = batch]
       IN  req' = [req EXCEPT ![w] =
              IF Len(batch) = 0 THEN Return(r) ELSE [r EXCEPT !.pc = "launch"]]
    /\ UNCHANGED <<issues, recs, started, persisted, pvars, cvars, tvars, rvars, avars>>

\* backfillTitles with the rows to process: none ends the run
TitlesFound(r, toProcess) ==
    IF Len(toProcess) = 0 THEN Return(r) ELSE [r EXCEPT !.batch = toProcess, !.pc = "launch"]

\* backfillTitles: findMany of the recommendations (every row has a url and none
\* is marked dead by the scraper), then the short or vague titles among them
FindRecs(w) ==
    /\ req[w].pc = "findMany"
    /\ req[w].fn = "backfillTitles"
    /\ \E rows \in TitleAscOrders(DOMAIN recs) :
          req' = [req EXCEPT ![w] =
             TitlesFound(@, SelectSeq(Take(rows, req[w].limit), NeedsBetterTitle))]
    /\ UNCHANGED <<issues, recs, started, persisted, pvars, cvars, tvars, rvars, avars>>

\* page.goto is called: the fetch is in flight
GotoStart(w) ==
    /\ req[w].pc = "goto"
    /\ req' = [req EXCEPT ![w] = [@ EXCEPT !.pc = "fetching", !.sinceFetch = 0,
                                           !.lastGap = req[w].sinceFetch]]
    /\ UNCHANGED <<issues, recs, started, persisted, pvars, cvars, tvars, rvars, avars>>

\* scrapeArchive after a page with issues: the next page while pageNum <= maxPages
NextArchivePage(r) == IF r.pageNum <= maxPages THEN [r EXCEPT !.pc = "goto"] ELSE ToUpserts(r)

\* scrapeArchive with what parseArchivePage found on the page: nothing ends the loop
Harvested(r, found) ==
    IF Len(found) = 0 THEN ToUpserts([r EXCEPT !.sinceFetch = @ + ArchiveSettle])
    ELSE NextArchivePage([r EXCEPT !.allIssues = @ \o found, !.pageNum = @ + 1,
                                   !.sinceFetch = @ + ArchiveSettle + DelayBetweenRequests])

\* scrapeArchive: an archive page arrives and is harvested
ArchivePageDone(w) ==
    /\ req[w].pc = "fetching"
    /\ req[w].fn = "archive"
    /\ req' = [req EXCEPT ![w] = Harvested(@, ArchiveListAt(@.pageNum))]
    /\ UNCHANGED <<issues, recs, started, persisted, pvars, cvars, tvars, rvars, avars>>

\* scrapeIssue: version p of the issue page arrives, is parsed, and its date is
\* extracted when the row that findMany returned has none
IssuePageDone(w, p, content) ==
    /\ req[w].pc = "fetching"
    /\ req[w].fn = "issues"
    /\ p \in PagesAt(req[w].batch[req[w].i].url)
    /\ req' = [req EXCEPT ![w] =
          ToRecLoop([@ EXCEPT !.page = p, !.issueId = req[w].batch[req[w].i].id,
                              !.snapDate = req[w].batch[req[w].i].date, !.added = 0,
                              !.recommendations = content.recommendations,
                              !.extractedDate = IF req[w].batch[req[w].i].date = Null
                                                THEN content.extractedDate ELSE Null,
                              !.sinceFetch = @ + IssueSettle])]
    /\ persisted' = persisted \cup Done(req'[w])
    /\ UNCHANGED <<issues, recs, started, pvars, cvars, tvars, rvars, avars>>

\* scrapeSingleUrl: version p of the page arrives, its date and title are extracted
SinglePageDone(w, p, content) ==
    /\ req[w].pc = "fetching"
    /\ req[w].fn = "single"
    /\ p \in PagesAt(req[w].url)
    /\ req' = [req EXCEPT ![w] =
          [@ EXCEPT !.page = p, !.pc = "findUnique",
                    !.recommendations = content.recommendations,
                    !.extractedDate = content.extractedDate,
                    !.extractedTitle = ExtractedTitle(content.pageTitle,
                                                      content.extractedDate),
                    !.sinceFetch = @ + IssueSettle]]
    /\ UNCHANGED <<issues, recs, started, persisted, pvars, cvars, tvars, rvars, avars>>

\* backfillDates after extractPublishDate: the update when a date was found
AfterBackfillPage(r) ==
    IF r.extractedDate # Null THEN [r EXCEPT !.pc = "setDate"] ELSE NextItem(r, TRUE)

\* backfillDates: version p of the issue page arrives and its date is extracted
BackfillPageDone(w, p, content) ==
    /\ req[w].pc = "fetching"
    /\ req[w].fn = "backfillDates"
    /\ p \in PagesAt(req[w].batch[req[w].i].url)
    /\ req' = [req EXCEPT ![w] =
          AfterBackfillPage([@ EXCEPT !.page = p, !.issueId = req[w].batch[req[w].i].id,
                                      !.extractedDate = content.extractedDate,
                                      !.sinceFetch = @ + BackfillSettle])]
    /\ UNCHANGED <<issues, recs, started, persisted, pvars, cvars, tvars, rvars, avars>>

\* backfillTitles after extractPageTitle: the update when the title is better,
\* one more skipped row otherwise
AfterTitlePage(r) ==
    IF ShouldUpdateTitle(r.batch[r.i].title, r.extractedTitle) THEN [r EXCEPT !.pc = "setTitle"]
    ELSE NextTitle([r EXCEPT !.skipped = @ + 1], TRUE)

\* backfillTitles: version p of the page a recommendation links to arrives and
\* its title is extracted
TitlePageDone(w, p, content) ==
    /\ req[w].pc = "fetching"
    /\ req[w].fn = "backfillTitles"
    /\ p \in PagesAt(req[w].batch[req[w].i].url)
    /\ req' = [req EXCEPT ![w] =
          AfterTitlePage([@ EXCEPT !.page = p, !.extractedTitle = content.pageTitle])]
    /\ UNCHANGED <<issues, recs, started, persisted, pvars, cvars, tvars, rvars, avars>>

\* a page.goto of an issue page or of a linked page resolves with version p of it
PageArrives(w, p, content) ==
    \/ IssuePageDone(w, p, content)
    \/ SinglePageDone(w, p, content)
    \/ BackfillPageDone(w, p, content)
    \/ TitlePageDone(w, p, content)

\* scrapeSingleUrl: issue.findUnique({ where: { url } })
FindUnique(w) ==
    /\ req[w].pc = "findUnique"
    /\ LET r == req[w]
           id == IssueByUrl(r.url)
       IN  req' = [req EXCEPT ![w] =
              IF id = 0 THEN [r EXCEPT !.pc = "createIssue"]
              ELSE LET r2 == [r EXCEPT !.issueId = id, !.snapDate = issues[id].date,
                                       !.snapScrapedAt = issues[id].scrapedAt]
                   IN  IF issues[id].scrapedAt # Null THEN [r2 EXCEPT !.pc = "unmark"]
                       ELSE ToRecLoop(r2)]
    /\ persisted' = persisted \cup Done(req'[w])
    /\ UNCHANGED <<issues, recs, started, pvars, cvars, tvars, rvars, avars>>

\* scrapeSingleUrl: the issue was scraped before, scrapedAt is reset
Unmark(w) ==
    /\ req[w].pc = "unmark"
    /\ issues' = [issues EXCEPT ![req[w].issueId].scrapedAt = Null]
    /\ req' = [req EXCEPT ![w] = ToRecLoop(@)]
    /\ persisted' = persisted \cup Done(req'[w])
    /\ UNCHANGED <<recs, started, pvars, cvars, tvars, rvars, avars>>

\* scrapeSingleUrl: issue.create for a url that findUnique did not find
CreateIssue(w) ==
    /\ req[w].pc = "createIssue"
    /\ LET r == req[w]
       IN  IF UniqueViolation(r.url)
           THEN /\ req' = [req EXCEPT ![w] = Fail(r, "db")]
                /\ UNCHANGED issues
           ELSE /\ issues' = Append(issues, [url |-> r.url, title |-> r.extractedTitle,
                                             date |-> r.extractedDate, scrapedAt |-> Null])
                /\ req' = [req EXCEPT ![w] =
                      ToRecLoop([r EXCEPT !.issueId = Len(issues) + 1,
                                          !.snapDate = r.extractedDate])]
    /\ persisted' = persisted \cup Done(req'[w])
    /\ UNCHANGED <<recs, started, pvars, cvars, tvars, rvars, avars>>

\* scrapeIssue, scrapeSingleUrl: recommendation.findFirst for the k-th parsed item
FindFirst(w) ==
    /\ req[w].pc = "findFirst"
    /\ req' = [req EXCEPT ![w] =
          IF ExistingRec(@.issueId, @.recommendations[@.k].url) THEN AfterRec(@)
          ELSE [@ EXCEPT !.pc = "create"]]
    /\ persisted' = persisted \cup Done(req'[w])
    /\ UNCHANGED <<issues, recs, started, pvars, cvars, tvars, rvars, avars>>

\* scrapeIssue, scrapeSingleUrl: recommendation.create for the k-th parsed item
CreateRec(w) ==
    /\ req[w].pc = "create"
    /\ LET r == req[w]
       IN  /\ recs' = Append(recs, [issueId |-> r.issueId, url |-> r.recommendations[r.k].url,
                                    title |-> r.recommendations[r.k].title,
                                    category |-> r.recommendations[r.k].category])
           /\ req' = [req EXCEPT ![w] =
                 AfterRec(IF r.fn = "single" THEN [r EXCEPT !.recsAdded = @ + 1]
                          ELSE [r EXCEPT !.added = @ + 1])]
    /\ persisted' = persisted \cup Done(req'[w])
    /\ UNCHANGED <<issues, started, pvars, cvars, tvars, rvars, avars>>

\* scrapeIssue: the issue is marked as scraped, with the date if one was extracted;
\* scrapeIssues counts it and waits before the next issue
MarkIssue(w) ==
    /\ req[w].pc = "mark"
    /\ req[w].fn = "issues"
    /\ LET r == req[w]
       IN  /\ issues' = [issues EXCEPT ![r.issueId] =
                 [@ EXCEPT !.scrapedAt = Now,
                           !.date = IF r.extractedDate # Null THEN r.extractedDate ELSE @]]
           /\ req' = [req EXCEPT ![w] =
                 NextItem([r EXCEPT !.recsAdded = @ + r.added, !.scraped = @ + 1], TRUE)]
    /\ UNCHANGED <<recs, started, persisted, pvars, cvars, tvars, rvars, avars>>

\* scrapeSingleUrl: the issue is marked as scraped, with the date when the row
\* that findUnique or create returned had none
MarkSingle(w) ==
    /\ req[w].pc = "mark"
    /\ req[w].fn = "single"
    /\ LET r == req[w]
       IN  /\ issues' = [issues EXCEPT ![r.issueId] =
                 [@ EXCEPT !.scrapedAt = Now,
                           !.date = IF r.extractedDate # Null /\ r.snapDate = Null
                                    THEN r.extractedDate ELSE @]]
           /\ req' = [req EXCEPT ![w] = Finally([r EXCEPT !.scraped = 1])]
    /\ UNCHANGED <<recs, started, persisted, pvars, cvars, tvars, rvars, avars>>

\* backfillDates: the extracted date is written
SetDate(w) ==
    /\ req[w].pc = "setDate"
    /\ issues' = [issues EXCEPT ![req[w].issueId].date = req[w].extractedDate]
    /\ req' = [req EXCEPT ![w] = NextItem([@ EXCEPT !.updated = @ + 1], TRUE)]
    /\ UNCHANGED <<recs, started, persisted, pvars, cvars, tvars, rvars, avars>>

\* backfillTitles: the extracted title is written
SetTitle(w) ==
    /\ req[w].pc = "setTitle"
    /\ recs' = [recs EXCEPT ![req[w].batch[req[w].i].id].title = req[w].extractedTitle]
    /\ req' = [req EXCEPT ![w] = NextTitle([@ EXCEPT !.updated = @ + 1], TRUE)]
    /\ UNCHANGED <<issues, started, persisted, pvars, cvars, tvars, rvars, avars>>

\* scrapeArchive: issue.upsert of the k-th harvested issue
Upsert(w) ==
    /\ req[w].pc = "upsert"
    /\ LET r == req[w]
           it == r.allIssues[r.k]
           id == IssueByUrl(it.url)
       IN  /\ issues' = IF id # 0 THEN [issues EXCEPT ![id].title = it.title]
                        ELSE Append(issues, [url |-> it.url, title |-> it.title,
                                             date |-> ParseDate(it.date), scrapedAt |-> Null])
           /\ req' = [req EXCEPT ![w] =
                 IF r.k < Len(r.allIssues) THEN [r EXCEPT !.k = @ + 1] ELSE Finally(r)]
    /\ UNCHANGED <<recs, started, persisted, pvars, cvars, tvars, rvars, avars>>

\* the pc of every await that can reject, with the catch it is under
Rejects ==
    [launch |-> "launch", findMany |-> "findMany", fetching |-> "goto", findUnique |-> "db",
     unmark |-> "db", createIssue |-> "db", findFirst |-> "db", create |-> "db",
     mark |-> "db", setDate |-> "db", setTitle |-> "db", upsert |-> "db"]

\* the await the invocation is at rejects (browser, network or database failure)
AwaitFails(w) ==
    /\ req[w].pc \in DOMAIN Rejects
    /\ req' = [req EXCEPT ![w] = Fail(@, Rejects[@.pc])]
    /\ UNCHANGED <<issues, recs, started, persisted, pvars, cvars, tvars, rvars, avars>>

\* browser.close() in the finally block, then the function returns or rethrows
Close(w) ==
    /\ req[w].pc = "close"
    /\ req' = [req EXCEPT ![w] = Return([@ EXCEPT !.browser = FALSE])]
    /\ UNCHANGED <<issues, recs, started, persisted, pvars, cvars, tvars, rvars, avars>>

\* the response has been sent and the invocation is over
Finish(w) ==
    /\ req[w].pc = "responded"
    /\ req' = [req EXCEPT ![w] = Idle]
    /\ UNCHANGED <<issues, recs, started, persisted, pvars, cvars, tvars, rvars, avars>>

Step(w) ==
    \/ Post(w)
    \/ Launch(w)
    \/ FindUnscraped(w)
    \/ FindUndated(w)
    \/ FindRecs(w)
    \/ GotoStart(w)
    \/ ArchivePageDone(w)
    \/ \E p \in DOMAIN SitePages : PageArrives(w, p, Fetched[p])
    \/ FindUnique(w)
    \/ Unmark(w)
    \/ CreateIssue(w)
    \/ FindFirst(w)
    \/ CreateRec(w)
    \/ MarkIssue(w)
    \/ MarkSingle(w)
    \/ SetDate(w)
    \/ SetTitle(w)
    \/ Upsert(w)
    \/ AwaitFails(w)
    \/ Close(w)
    \/ Finish(w)

\* a run of guessCategory: its arguments, whether it has returned, and the result
ClassifierRun(title, description, url) ==
    [title |-> title, description |-> description, url |-> url, done |-> FALSE,
     category |-> Null]

\* no run of the classifier on its own
NoRun == [ClassifierRun(Null, Null, Null) EXCEPT !.done = TRUE]

\* no tagging call in progress
NoTagCall == [pc |-> "idle", op |-> Null, rec |-> 0, names |-> <<>>, ids |-> {}]

\* no call of aiCategorizeRecommendations in progress
NoAiCall ==
    [pc |-> "idle", ids |-> {}, recommendations |-> <<>>, i |-> 0, aiResults |-> <<>>,
     k |-> 0, results |-> <<>>]

\* the empty database; no request has been received
Init ==
    /\ issues = <<>>
    /\ recs = <<>>
    /\ req = [w \in Workers |-> Idle]
    /\ started = 0
    /\ persisted = {}
    /\ pdoc = SitePages[1]
    /\ pout = <<>>
    /\ pdone = TRUE
    /\ crun = NoRun
    /\ tags = <<>>
    /\ recTags = {}
    /\ tagReq = [w \in Workers |-> NoTagCall]
    /\ failing = {}
    /\ aiReq = NoAiCall

\* requests may overlap
Next == \E w \in Workers : Step(w)

Spec == Init /\ [][Next]_vars

\* one request at a time: a request is received when the one before is over
NextSeq == Step(1)

SpecSeq == Init /\ [][NextSeq]_vars

(***************************************************************************)
(* scrapeIssues(limit) invoked again and again                             *)
(*                                                                         *)
(* One caller invokes scrapeIssues with the same limit each time the       *)
(* previous invocation has returned.  The pages of the urls in failing     *)
(* never load; every other await resolves.                                 *)
(***************************************************************************)

\* the store after scrapeArchive has harvested ArchiveSite
ArchivedStore ==
    <<[url |-> urlUndated, title |-> "Installer No. 21: more & more", date |-> Null,
       scrapedAt |-> Null],
      [url |-> urlDated, title |-> "Installer No. 20: the best apps of the week",
       date |-> ParseDate("2024-01-05"), scrapedAt |-> Null]>>

IssueUrls == {urlDated, urlUndated}

\* scrapeIssues(limit) at its first line
Invoked(limit) ==
    Enter([Idle EXCEPT !.action = "issues", !.limit = limit], "issues", "findMany")

\* the url of the issue the loop of scrapeIssues is at
LoopUrl(w) == req[w].batch[req[w].i].url

\* scrapeIssues has returned and is invoked again with the same limit
Reinvoke(w) ==
    /\ req[w].pc = "responded"
    /\ req[w].fn = "issues"
    /\ req' = [req EXCEPT ![w] = Invoked(req[w].limit)]
    /\ UNCHANGED <<issues, recs, started, persisted, pvars, cvars, tvars, rvars, avars>>

\* page.goto rejects for an issue whose page never loads
FetchFails(w) ==
    /\ req[w].pc = "fetching"
    /\ LoopUrl(w) \in failing
    /\ AwaitFails(w)

\* the page of any other issue arrives
FetchSucceeds(w) ==
    /\ req[w].pc = "fetching"
    /\ LoopUrl(w) \notin failing
    /\ \E p \in DOMAIN SitePages : IssuePageDone(w, p, Fetched[p])

InitRepeat ==
    /\ issues = ArchivedStore
    /\ recs = <<>>
    /\ \E limit \in {<<1>>, <<2>>} : req = [w \in Workers |-> IF w = 1 THEN Invoked(limit) ELSE Idle]
    /\ started = 1
    /\ persisted = {}
    /\ pdoc = SitePages[1]
    /\ pout = <<>>
    /\ pdone = TRUE
    /\ crun = NoRun
    /\ tags = <<>>
    /\ recTags = {}
    /\ tagReq = [w \in Workers |-> NoTagCall]
    /\ failing \in SUBSET IssueUrls
    /\ aiReq = NoAiCall

NextRepeat ==
    \/ FindUnscraped(1)
    \/ Launch(1)
    \/ GotoStart(1)
    \/ FetchFails(1)
    \/ FetchSucceeds(1)
    \/ FindFirst(1)
    \/ CreateRec(1)
    \/ MarkIssue(1)
    \/ Close(1)
    \/ Reinvoke(1)

\* every await settles and the caller goes on invoking
SpecRepeat == InitRepeat /\ [][NextRepeat]_vars /\ WF_vars(NextRepeat)

(***************************************************************************)
(* The parser run: parseNewsletterContent applied to one page              *)
(***************************************************************************)

InitParse ==
    /\ pdoc \in Docs
    /\ pout = <<>>
    /\ pdone = FALSE
    /\ issues = <<>>
    /\ recs = <<>>
    /\ req = [w \in Workers |-> Idle]
    /\ started = 0
    /\ persisted = {}
    /\ crun = NoRun
    /\ tags = <<>>
    /\ recTags = {}
    /\ tagReq = [w \in Workers |-> NoTagCall]
    /\ failing = {}
    /\ aiReq = NoAiCall

ParseStep ==
    /\ ~pdone
    /\ pout' = parseNewsletterContent(pdoc)
    /\ pdone' = TRUE
    /\ UNCHANGED <<pdoc, svars, cvars, tvars, rvars, avars>>

NextParse == ParseStep

SpecParse == InitParse /\ [][NextParse]_vars

(***************************************************************************)
(* The classifier run: guessCategory applied to one triple of arguments    *)
(***************************************************************************)

ClassifierTitles == {Null, "", "Widget", "A new album"}

ClassifierDescriptions == {Null, "", "an iOS app for notes", "Cool thing"}

ClassifierUrls ==
    {Null, "", "not a url", "https://www.netflix.com/title/1",
     "https://apps.apple.com/app/widget", "https://www.theverge.com/tech/cool-thing",
     "https://www.amazon.com/dp/B00", "https://www.amazon.com/gp/video/detail/B0"}

InitClassify ==
    /\ crun \in {ClassifierRun(t, d, u) :
                    t \in ClassifierTitles, d \in ClassifierDescriptions, u \in ClassifierUrls}
    /\ pdoc = SitePages[1]
    /\ pout = <<>>
    /\ pdone = TRUE
    /\ issues = <<>>
    /\ recs = <<>>
    /\ req = [w \in Workers |-> Idle]
    /\ started = 0
    /\ persisted = {}
    /\ tags = <<>>
    /\ recTags = {}
    /\ tagReq = [w \in Workers |-> NoTagCall]
    /\ failing = {}
    /\ aiReq = NoAiCall

Classify ==
    /\ ~crun.done
    /\ crun' = [crun EXCEPT !.done = TRUE,
                             !.category = guessCategory(crun.title, crun.description, crun.url)]
    /\ UNCHANGED <<pvars, svars, tvars, rvars, avars>>

NextClassify == Classify

SpecClassify == InitClassify /\ [][NextClassify]_vars

(***************************************************************************)
(* Tagging: the curation actions that write Tag and _RecommendationToTag   *)
(*                                                                         *)
(* The calls are those of a signed-in admin: without a session requireAuth *)
(* throws before anything is read or written.  The category column that    *)
(* the AI tagging also writes is not part of the rows kept here.           *)
(***************************************************************************)

\* a tagging that takes the name as it was typed
NormalizeTagRaw(name) == name

\* name.toLowerCase().trim()
NormalizeTag(name) == Trim(ToLower(name))

RECURSIVE NormalizeTags(_)
\* tagNames.map(...), and the loop over item.tags of the AI response
NormalizeTags(names) ==
    IF Len(names) = 0 THEN <<>>
    ELSE <<NormalizeTag(Head(names))>> \o NormalizeTags(Tail(names))

\* the unique index on Tag.name: a row with the name exists
TagNameTaken(name) == \E i \in DOMAIN tags : tags[i] = name

\* the id of the Tag row with the name
TagId(name) == CHOOSE i \in DOMAIN tags : tags[i] = name

\* the names of the tags attached to the recommendation
TagNamesOf(rec) == {tags[p[2]] : p \in {q \in recTags : q[1] = rec}}

\* the names and the lists of names the admin and the AI response supply
TagNamePool == {"AI", " ai ", "mac"}

TagListPool == {<<>>, <<"mac">>, <<"AI", " ai ">>, <<" ai ", "mac">>}

\* the ids the calls name: the rows of Recommendation and one id without a row
TagTargets == 1..(Len(recs) + 1)

\* a call that has its names goes on to upsert them
TagCall(op, rec, names) ==
    [pc |-> IF Len(names) > 0 THEN "upsert" ELSE "update", op |-> op, rec |-> rec,
     names |-> names, ids |-> {}]

\* addTagToRecommendation(recommendationId, tagName)
AddTagCall(w) ==
    /\ tagReq[w].pc = "idle"
    /\ \E rec \in TagTargets, name \in TagNamePool :
          tagReq' = [tagReq EXCEPT ![w] = TagCall("add", rec, <<NormalizeTag(name)>>)]
    /\ UNCHANGED <<tags, recTags, pvars, cvars, svars, rvars, avars>>

\* updateRecommendationTags(recommendationId, tagNames)
UpdateTagsCall(w) ==
    /\ tagReq[w].pc = "idle"
    /\ \E rec \in TagTargets, names \in TagListPool :
          tagReq' = [tagReq EXCEPT ![w] = TagCall("set", rec, NormalizeTags(names))]
    /\ UNCHANGED <<tags, recTags, pvars, cvars, svars, rvars, avars>>

\* aiCategorizeRecommendations([rec]): the recommendation is read with its tags,
\* and of the tags the response suggests those that are not blank and that it
\* does not have yet are kept
AiTagCall(w) ==
    /\ tagReq[w].pc = "idle"
    /\ \E rec \in DOMAIN recs, names \in TagListPool :
          tagReq' = [tagReq EXCEPT ![w] =
                TagCall("ai", rec,
                        SelectSeq(NormalizeTags(names), LAMBDA n : Len(n) > 0 /\ n \notin TagNamesOf(rec)))]
    /\ UNCHANGED <<tags, recTags, pvars, cvars, svars, rvars, avars>>

\* the names a call may upsert next: Promise.all starts all of them, the loops
\* take them in order
NextNames(r) == IF r.op = "set" THEN DOMAIN r.names ELSE {1}

\* the call with the k-th of its names taken off and the id put with the others
NameDone(r, k, id) ==
    [r EXCEPT !.names = SubSeq(@, 1, k - 1) \o SubSeq(@, k + 1, Len(@)),
              !.ids = @ \cup {id},
              !.pc = IF Len(r.names) = 1 THEN "update" ELSE "upsert"]

\* prisma.tag.upsert, the lookup: a row with the name is reused, update: {}
FindTag(w) ==
    /\ tagReq[w].pc = "upsert"
    /\ \E k \in NextNames(tagReq[w]) :
          tagReq' = [tagReq EXCEPT ![w] =
                IF TagNameTaken(tagReq[w].names[k])
                THEN NameDone(tagReq[w], k, TagId(tagReq[w].names[k]))
                ELSE [tagReq[w] EXCEPT !.pc = "insert",
                                       !.names = <<tagReq[w].names[k]>> \o
                                                 SubSeq(@, 1, k - 1) \o SubSeq(@, k + 1, Len(@))]]
    /\ UNCHANGED <<tags, recTags, pvars, cvars, svars, rvars, avars>>

\* prisma.tag.upsert, the create: the row is inserted unless the unique index
\* refuses it, and then the call is left by the exception
InsertTag(w) ==
    /\ tagReq[w].pc = "insert"
    /\ IF TagNameTaken(tagReq[w].names[1])
       THEN /\ tagReq' = [tagReq EXCEPT ![w] = NoTagCall]
            /\ tags' = tags
       ELSE /\ tags' = Append(tags, tagReq[w].names[1])
            /\ tagReq' = [tagReq EXCEPT ![w] = NameDone(tagReq[w], 1, Len(tags) + 1)]
    /\ UNCHANGED <<recTags, pvars, cvars, svars, rvars, avars>>

\* the rows of the join table after recommendation.update with set, with
\* connect, or without a change of the tags
TagsWritten(r) ==
    IF r.rec \notin DOMAIN recs THEN recTags
    ELSE IF r.op = "set"
         THEN {p \in recTags : p[1] # r.rec} \cup {<<r.rec, id>> : id \in r.ids}
         ELSE recTags \cup {<<r.rec, id>> : id \in r.ids}

\* prisma.recommendation.update, and the call returns
UpdateRecTags(w) ==
    /\ tagReq[w].pc = "update"
    /\ recTags' = TagsWritten(tagReq[w])
    /\ tagReq' = [tagReq EXCEPT ![w] = NoTagCall]
    /\ UNCHANGED <<tags, pvars, cvars, svars, rvars, avars>>

TagStep(w) ==
    \/ AddTagCall(w)
    \/ UpdateTagsCall(w)
    \/ AiTagCall(w)
    \/ FindTag(w)
    \/ InsertTag(w)
    \/ UpdateRecTags(w)

\* a store with one issue and its recommendation, and no tag
InitTags ==
    /\ issues = <<[url |-> urlDated, title |-> "Installer No. 20", date |-> Null,
                   scrapedAt |-> Now]>>
    /\ recs = <<[issueId |-> 1, url |-> aWidget.href, title |-> "Widget",
                  category |-> "apps"]>>
    /\ req = [w \in Workers |-> Idle]
    /\ started = 0
    /\ persisted = {}
    /\ pdoc = SitePages[1]
    /\ pout = <<>>
    /\ pdone = TRUE
    /\ crun = NoRun
    /\ tags = <<>>
    /\ recTags = {}
    /\ tagReq = [w \in Workers |-> NoTagCall]
    /\ failing = {}
    /\ aiReq = NoAiCall

\* the calls may overlap
NextTags == \E w \in Workers : TagStep(w)

SpecTags == InitTags /\ [][NextTags]_vars

(***************************************************************************)
(* AI categorization: aiCategorizeRecommendations with categorizeAll       *)
(*                                                                         *)
(* One call of a signed-in admin at a time.  The answer of the API is an   *)
(* input: a JSON array with an item per recommendation of the batch, an    *)
(* empty array, or nothing that parseResponse accepts.                     *)
(***************************************************************************)

\* batchSize = 15
BatchSize == 15

\* the categories an answer names, one of them not in CATEGORIES
AiCategories == {"apps", "articles", "gizmos"}

\* the tag lists an answer names
AiTagLists == {<<>>, <<" Mac ">>}

\* the ids a call names: the rows of Recommendation and one id without a row
AiTargets == 1..(Len(recs) + 1)

\* the row as findMany selects it, with the names of its tags
RecWithTags(id) == [id |-> id, category |-> recs[id].category, tags |-> TagNamesOf(id)]

RECURSIVE RowsOf(_)
\* recommendation.findMany({ where: { id: { in: ids } } })
RowsOf(ids) ==
    IF ids \cap DOMAIN recs = {} THEN <<>>
    ELSE <<RecWithTags(MinOf(ids \cap DOMAIN recs))>> \o RowsOf(ids \ {MinOf(ids \cap DOMAIN recs)})

\* an item of the answer
AiItem(id, category, names) == [id |-> id, category |-> category, tags |-> names]

\* the answers to the prompt for a batch: an item for each of its rows, or none
AiAnswers(batch) ==
    {<<>>} \cup
    {[j \in DOMAIN batch |-> AiItem(batch[j].id, f[j][1], f[j][2])] :
        f \in [DOMAIN batch -> AiCategories \X AiTagLists]}

\* parseResponse on one item: a category outside CATEGORIES becomes articles with
\* low confidence and no tags; the tags are lower-cased and trimmed, blank ones left out
ParsedItem(item) ==
    IF item.category \notin CATEGORIES
    THEN [id |-> item.id, category |-> "articles", confidence |-> "low",
          reasoning |-> "Invalid category", suggestedTags |-> <<>>]
    ELSE [id |-> item.id, category |-> item.category, confidence |-> "medium",
          reasoning |-> "",
          suggestedTags |-> NormalizeTags(SelectSeq(item.tags, LAMBDA t : Len(Trim(t)) > 0))]

\* parseResponse: parsed.map(...)
parseResponse(answer) == [j \in DOMAIN answer |-> ParsedItem(answer[j])]

\* the catch of categorizeAll: a result for every item of the failed batch
BatchFailed(batch) ==
    [j \in DOMAIN batch |->
       [id |-> batch[j].id, category |-> "articles", confidence |-> "low",
        reasoning |-> "Batch failed", suggestedTags |-> <<>>]]

\* items.slice(i, i + batchSize), with i counted from 1
BatchAt(r) == SubSeq(r.recommendations, r.i, Min(r.i + BatchSize - 1, Len(r.recommendations)))

\* the loop of categorizeAll after a batch: the next batch, or the updates begin
AfterBatch(r, batchResults) ==
    LET r2 == [r EXCEPT !.aiResults = @ \o batchResults, !.i = @ + BatchSize]
    IN  IF r2.i <= Len(r.recommendations) THEN r2 ELSE [r2 EXCEPT !.pc = "update", !.k = 1]

\* resultMap.has(id)
HasResult(aiResults, id) == \E j \in DOMAIN aiResults : aiResults[j].id = id

\* resultMap.get(id): the last result that was set for the id
ResultFor(aiResults, id) ==
    aiResults[MaxOf({j \in DOMAIN aiResults : aiResults[j].id = id})]

RECURSIVE UpsertTags(_, _)
\* tag.upsert for each name in turn: the table with the missing names inserted
UpsertTags(table, names) ==
    IF Len(names) = 0 THEN table
    ELSE UpsertTags(IF \E i \in DOMAIN table : table[i] = Head(names) THEN table
                    ELSE Append(table, Head(names)),
                    Tail(names))

\* aiCategorizeRecommendations(ids) up to the first batch
AiCall ==
    /\ aiReq.pc = "idle"
    /\ \E ids \in SUBSET AiTargets :
          aiReq' = IF Len(RowsOf(ids)) = 0
                   THEN [NoAiCall EXCEPT !.pc = "returned", !.ids = ids]
                   ELSE [NoAiCall EXCEPT !.pc = "batch", !.ids = ids, !.i = 1,
                                         !.recommendations = RowsOf(ids)]
    /\ UNCHANGED <<pvars, cvars, svars, tvars, rvars>>

\* categorizeBatch returns what parseResponse made of the answer
BatchAnswered ==
    /\ aiReq.pc = "batch"
    /\ \E answer \in AiAnswers(BatchAt(aiReq)) :
          aiReq' = AfterBatch(aiReq, parseResponse(answer))
    /\ UNCHANGED <<pvars, cvars, svars, tvars, rvars>>

\* categorizeBatch throws: the API call fails or parseResponse rejects the answer
BatchThrows ==
    /\ aiReq.pc = "batch"
    /\ aiReq' = AfterBatch(aiReq, BatchFailed(BatchAt(aiReq)))
    /\ UNCHANGED <<pvars, cvars, svars, tvars, rvars>>

\* the loop over the rows read: without a result the row is reported as failed;
\* with one, the new tags are upserted, the category is written when it differs,
\* the tags are connected and the row is reported as categorized
UpdateRec ==
    /\ aiReq.pc = "update"
    /\ LET rec == aiReq.recommendations[aiReq.k]
           answered == HasResult(aiReq.aiResults, rec.id)
           aiResult == ResultFor(aiReq.aiResults, rec.id)
           newTagNames == IF ~answered THEN <<>>
                          ELSE SelectSeq(aiResult.suggestedTags, LAMBDA t : t \notin rec.tags)
           table == UpsertTags(tags, newTagNames)
           report == IF ~answered THEN [id |-> rec.id, success |-> FALSE, category |-> Null]
                     ELSE [id |-> rec.id, success |-> TRUE, category |-> aiResult.category]
       IN  /\ tags' = table
           /\ recTags' = recTags \cup
                 {<<rec.id, CHOOSE i \in DOMAIN table : table[i] = newTagNames[n]>> :
                     n \in DOMAIN newTagNames}
           /\ recs' = IF answered /\ aiResult.category # rec.category
                      THEN [recs EXCEPT ![rec.id].category = aiResult.category]
                      ELSE recs
           /\ aiReq' = [aiReq EXCEPT !.results = Append(@, report),
                                     !.k = @ + 1,
                                     !.pc = IF aiReq.k < Len(aiReq.recommendations)
                                            THEN "update" ELSE "returned"]
    /\ UNCHANGED <<issues, req, started, persisted, tagReq, pvars, cvars, rvars>>

\* the results have been handed to the caller
AiDone ==
    /\ aiReq.pc = "returned"
    /\ aiReq' = NoAiCall
    /\ UNCHANGED <<pvars, cvars, svars, tvars, rvars>>

\* a store with one scraped issue and two recommendations, and no tag
InitAi ==
    /\ issues = <<[url |-> urlDated, title |-> "Installer No. 20", date |-> Null,
                   scrapedAt |-> Now]>>
    /\ \E c1, c2 \in {"apps", "articles"} :
          recs = <<[issueId |-> 1, url |-> aWidget.href, title |-> "Widget", category |-> c1],
                   [issueId |-> 1, url |-> aArc.href, title |-> "Arc", category |-> c2]>>
    /\ req = [w \in Workers |-> Idle]
    /\ started = 0
    /\ persisted = {}
    /\ pdoc = SitePages[1]
    /\ pout = <<>>
    /\ pdone = TRUE
    /\ crun = NoRun
    /\ tags = <<>>
    /\ recTags = {}
    /\ tagReq = [w \in Workers |-> NoTagCall]
    /\ failing = {}
    /\ aiReq = NoAiCall

NextAi ==
    \/ AiCall
    \/ BatchAnswered
    \/ BatchThrows
    \/ UpdateRec
    \/ AiDone

SpecAi == InitAi /\ [][NextAi]_vars

\* C1: the list parseNewsletterContent returns never holds two recommendations
\* with the same url, whichever strategy produced them.
C1_NoDuplicateUrls ==
    pdone => \A i, j \in DOMAIN pout : i # j => pout[i].url # pout[j].url

\* a page whose block walk emitted a recommendation and then threw, and whose
\* article region links to the same URL again
C1_Witness ==
    /\ pdone
    /\ StructuredWalk(pdoc).threw
    /\ Len(StructuredWalk(pdoc).recs) > 0
    /\ pdoc.hasArticle
    /\ \E k \in DOMAIN extractLinksFromHtml(pdoc.article) :
          /\ NormalizeHref(extractLinksFromHtml(pdoc.article)[k].href)
                = StructuredWalk(pdoc).recs[1].url
          /\ ~isJunkTitle(extractLinksFromHtml(pdoc.article)[k].text)
    /\ Len(pout) > Len(StructuredWalk(pdoc).recs)

(***************************************************************************)
(* Properties of the scraper                                               *)
(***************************************************************************)

\* C2: when a page of an issue that already went through the persistence loop
\* is parsed and persisted again, the loop creates no recommendation row, and
\* the store never holds two recommendations with the same (issueId, url).
C2_IdempotentReparse ==
    /\ \A w \in Workers :
          req[w].pc = "mark" /\ req[w].again =>
             IF req[w].fn = "single" THEN req[w].recsAdded = 0 ELSE req[w].added = 0
    /\ \A i, j \in DOMAIN recs :
          i # j => <<recs[i].issueId, recs[i].url>> # <<recs[j].issueId, recs[j].url>>

\* the loop over a page with recommendations has ended for the second time
C2_Witness ==
    \E w \in Workers :
       /\ req[w].pc = "mark"
       /\ req[w].again
       /\ Len(req[w].recommendations) > 0
       /\ \A k \in DOMAIN req[w].recommendations :
             ExistingRec(req[w].issueId, req[w].recommendations[k].url)

\* C3: a scrapeIssues run that returns without a top-level failure has attempted
\* every issue of its batch: issuesScraped plus the per-issue error entries
\* equals issuesFound.
C3_PartialFailureTolerance ==
    \A w \in Workers :
       req[w].fn = "issues" /\ req[w].pc = "responded" /\ req[w].topErrs = 0 =>
          req[w].scraped + req[w].itemErrs = req[w].found

\* a run in which one issue failed and another one went through
C3_Witness ==
    \E w \in Workers :
       /\ req[w].fn = "issues"
       /\ req[w].pc = "responded"
       /\ req[w].topErrs = 0
       /\ req[w].itemErrs > 0
       /\ req[w].scraped > 0

\* the issue that scrapeIssues is working on
CurrentIssue(r) == r.batch[r.i].id

\* scrapeIssues is inside scrapeIssue
InScrapeIssue(r) ==
    r.fn = "issues" /\ r.pc \in {"fetching", "findFirst", "create", "mark"}

\* C4: scrapeIssues fetches and parses only issues whose scrapedAt was null when
\* the run started, and a step in which the scrape of an issue fails leaves the
\* scrapedAt of that issue null.
C4_Resumability ==
    [][\A w \in Workers :
          /\ InScrapeIssue(req'[w]) => CurrentIssue(req'[w]) \in req'[w].atStart
          /\ InScrapeIssue(req[w]) /\ req'[w].itemErrs > req[w].itemErrs =>
                issues'[CurrentIssue(req[w])].scrapedAt = Null]_vars

\* a run fetches an issue that was left unscraped while another issue of the
\* store, scraped before the run started, is not in its batch
C4_Witness ==
    \E w \in Workers :
       /\ req[w].fn = "issues"
       /\ req[w].pc = "fetching"
       /\ \E i \in DOMAIN issues : i \notin req[w].atStart /\ issues[i].scrapedAt # Null

\* C5: in a scrapeIssues run, delayBetweenRequests elapses between the starts of
\* two consecutive issue-page fetches, whether the earlier one succeeded or failed.
C5_PolitenessDelay ==
    \A w \in Workers :
       req[w].fn = "issues" /\ req[w].pc = "fetching" /\ req[w].i > 1 =>
          req[w].lastGap >= DelayBetweenRequests

\* the scraper functions that fetch pages of the source site
SourceSiteFns == {"archive", "issues", "single", "backfillDates"}

\* C6: at most one page fetch towards the source site is in progress, also when
\* requests to POST /api/scrape overlap.
C6_OneFetchAtATime ==
    Cardinality({w \in Workers : req[w].pc = "fetching" /\ req[w].fn \in SourceSiteFns}) <= 1

\* the actions of the endpoint that run a batch operation
BatchActions == {"archive", "issues", "all", "backfill-dates", "backfill-titles"}

\* C7: a batch operation ends by returning its result and never by throwing, so
\* the endpoint never answers a batch action with status 500.
C7_BatchNeverThrows ==
    \A w \in Workers :
       req[w].action \in BatchActions => ~req[w].throwing /\ req[w].status # 500

\* the url is one of the source site: its host is theverge.com or a subdomain
OnSourceSite(url) ==
    /\ UrlParses(url)
    /\ \/ UrlHostname(url) = "theverge.com"
       \/ EndsWith(UrlHostname(url), ".theverge.com")

\* C8: an authenticated single-url request without a url is answered 400 before
\* any scraper function runs, and one whose url is not of the source site ends at
\* once with an error, issuesScraped = 0 and no browser, fetch or write.
C8_ForeignUrlRejected ==
    \A w \in Workers :
       req[w].action = "single-url" /\ req[w].status # 401 =>
          IF req[w].url = Null
          THEN req[w].pc = "responded" /\ req[w].status = 400 /\ req[w].fn = Null
          ELSE ~OnSourceSite(req[w].url) =>
                  /\ req[w].pc = "responded"
                  /\ req[w].status = 200
                  /\ req[w].topErrs > 0
                  /\ req[w].scraped = 0
                  /\ ~req[w].browser

\* C9: no two issues have the same url, and no step removes an issue or changes
\* the url of one: an issue that is found again keeps its row.
C9_UniqueUrlsNoDelete ==
    [][/\ Len(issues') >= Len(issues)
       /\ \A i \in DOMAIN issues : issues'[i].url = issues[i].url
       /\ \A i, j \in DOMAIN issues' : i # j => issues'[i].url # issues'[j].url]_vars

\* scrapeArchive has just upserted an issue that was in the store, and scraped,
\* before
C9_Witness ==
    \E w \in Workers :
       /\ req[w].fn = "archive"
       /\ req[w].pc = "upsert"
       /\ req[w].k > 1
       /\ \E i \in DOMAIN issues :
             /\ issues[i].url = req[w].allIssues[req[w].k - 1].url
             /\ issues[i].scrapedAt # Null
       /\ Len(issues) = Cardinality({issues[i].url : i \in DOMAIN issues})

\* C10: once an issue has a date, no step changes it.
C10_DateWrittenOnce ==
    [][\A i \in DOMAIN issues :
          issues[i].date # Null => issues'[i].date = issues[i].date]_vars

(***************************************************************************)
(* Properties of the parser                                                *)
(***************************************************************************)

\* the fallback strategy run on its own
FallbackAlone(doc) == FallbackWalk(doc, EmptyWalk).recs

\* the urls of a list of recommendations
UrlsOf(recommendations) == {recommendations[i].url : i \in DOMAIN recommendations}

\* C11: the parser always returns a list.  Without a payload, or with one that
\* is not valid JSON, the list is that of the fallback strategy; when the block
\* walk is left by an exception the fallback still runs and adds every link it
\* accepts whose url the walk had not seen; when neither strategy finds a
\* qualifying link the list is empty.
C11_SilentFallback ==
    pdone =>
       /\ pdoc.nextData # "json" => pout = FallbackAlone(pdoc)
       /\ StructuredWalk(pdoc).threw =>
             /\ SubSeq(pout, 1, Len(StructuredWalk(pdoc).recs)) = StructuredWalk(pdoc).recs
             /\ UrlsOf(FallbackAlone(pdoc)) \ StructuredWalk(pdoc).seen \subseteq UrlsOf(pout)
       /\ Len(StructuredWalk(pdoc).recs) = 0 /\ Len(FallbackAlone(pdoc)) = 0 => pout = <<>>

\* a payload whose block walk threw before it found anything, on a page whose
\* article region gave the recommendations
C11_Witness ==
    /\ pdone
    /\ StructuredWalk(pdoc).threw
    /\ Len(StructuredWalk(pdoc).recs) = 0
    /\ Len(pout) > 0

\* the link is accepted when it is the only one processLink is given
QualifiesAlone(link) ==
    Len(processLink(link.href, link.text, link.text, Null, Null, EmptyWalk).recs) = 1

\* how many recommendations of the list carry the url
CountUrl(recommendations, url) ==
    Cardinality({i \in DOMAIN recommendations : recommendations[i].url = url})

\* C12: when two anchors of a document point to the same normalised url and one
\* of them qualifies for a recommendation, the list holds exactly one
\* recommendation with that url, whatever the order of the two anchors.
C12_OnePerUrlAnyOrder ==
    pdone /\ pdoc.nextData # "json" /\ pdoc.hasArticle =>
       \A j, k \in DOMAIN extractLinksFromHtml(pdoc.article) :
          LET links == extractLinksFromHtml(pdoc.article)
          IN  /\ j # k
              /\ NormalizeHref(links[j].href) = NormalizeHref(links[k].href)
              /\ QualifiesAlone(links[k])
              => CountUrl(pout, NormalizeHref(links[k].href)) = 1

\* the first block list the payload search finds, when the payload parses
FoundBlocks(doc) == IF doc.nextData = "json" THEN FindBlocks(doc.responses) ELSE <<>>

\* C13: when the text around an anchor is of the form X (link) with X longer
\* than two characters, the recommendation made from the anchor has the title
\* X even when the anchor text is very short or generic such as here or link:
\* a page whose first block is the paragraph  Widget Pro (link) <a>here</a>
\* gives a recommendation for the anchor's url with the title Widget Pro.
C13_LinkConventionBeforeJunk ==
    pdone /\ Len(FoundBlocks(pdoc)) > 0 /\ FoundBlocks(pdoc)[1] = Block(ParagraphType, "", <<cHere>>) =>
       \E i \in DOMAIN pout :
          /\ pout[i].url = NormalizeHref(aCoolAbs.href)
          /\ pout[i].title = "Widget Pro"

\* the pieces of markup of a document that hold anchors: the contents of the
\* blocks found in the payload, and with them the article region
BlockRegions(doc) ==
    UNION {{FoundBlocks(doc)[b].contents[j].parts : j \in DOMAIN FoundBlocks(doc)[b].contents}
              : b \in DOMAIN FoundBlocks(doc)}

Regions(doc) == BlockRegions(doc) \cup (IF doc.hasArticle THEN {doc.article} ELSE {})

\* the piece of markup has an anchor to the url
HasAnchorTo(parts, url) ==
    \E k \in DOMAIN extractLinksFromHtml(parts) :
       NormalizeHref(extractLinksFromHtml(parts)[k].href) = url

\* the text of the piece of markup contains (link), whatever the case
HasMarker(parts) == Includes(ToLower(PlainText(parts, 1)), "(link)")

\* C14: under either strategy isPrimaryLink of a recommendation is true exactly
\* when the text surrounding its anchor contains (link): a primary link has an
\* anchor in a piece of text with the marker, and a recommendation that is not
\* primary has an anchor in a piece of text without it.
C14_PrimaryLinkFidelity ==
    pdone =>
       \A i \in DOMAIN pout :
          LET around == {p \in Regions(pdoc) : HasAnchorTo(p, pout[i].url)}
          IN  /\ pout[i].isPrimaryLink => \E p \in around : HasMarker(p)
              /\ ~pout[i].isPrimaryLink => \E p \in around : ~HasMarker(p)

\* the same under the structured strategy alone, where the context handed to
\* processLink is the text of the paragraph or list item
PrimaryLinkFidelityStructured ==
    pdone /\ ~StructuredWalk(pdoc).threw /\ Len(StructuredWalk(pdoc).recs) > 0 =>
       \A i \in DOMAIN pout :
          LET around == {p \in BlockRegions(pdoc) : HasAnchorTo(p, pout[i].url)}
          IN  /\ pout[i].isPrimaryLink => \E p \in around : HasMarker(p)
              /\ ~pout[i].isPrimaryLink => \E p \in around : ~HasMarker(p)

\* the contents of the paragraph blocks found in the payload
ParagraphRegions(doc) ==
    UNION {{FoundBlocks(doc)[b].contents[j].parts : j \in DOMAIN FoundBlocks(doc)[b].contents}
              : b \in {k \in DOMAIN FoundBlocks(doc) : FoundBlocks(doc)[k].typename = ParagraphType}}

\* the recommendation was made from an anchor of the piece of markup: its url
\* is an anchor's and its description is the text of the piece
EmittedFrom(rec, parts) ==
    /\ HasAnchorTo(parts, rec.url)
    /\ Len(PlainText(parts, 1)) > 10
    /\ rec.description = Substring(PlainText(parts, 1), 0, 500)

\* C15: a recommendation with a contributor name is crowdsourced; and every
\* recommendation made from a paragraph whose markup ends in the em-dash entity
\* and one word W is crowdsourced and has the contributor name W, Sam for the
\* paragraph that ends in the entity and Sam.
C15_ContributorImpliesCrowdsourced ==
    pdone =>
       \A i \in DOMAIN pout :
          /\ pout[i].contributorName # Null => pout[i].isCrowdsourced
          /\ \A p \in ParagraphRegions(pdoc) :
                EmittedFrom(pout[i], p) /\ ContributorOf(p) # Null
                => pout[i].isCrowdsourced /\ pout[i].contributorName = ContributorOf(p)
          /\ cCool.parts \in ParagraphRegions(pdoc) /\ EmittedFrom(pout[i], cCool.parts)
                => pout[i].isCrowdsourced /\ pout[i].contributorName = "Sam"

\* a recommendation made from the paragraph that ends in the em-dash entity and Sam
C15_Witness ==
    /\ pdone
    /\ \E i \in DOMAIN pout :
          /\ EmittedFrom(pout[i], cCool.parts)
          /\ cCool.parts \in ParagraphRegions(pdoc)
          /\ ContributorOf(cCool.parts) = "Sam"
          /\ pout[i].contributorName = "Sam"

(***************************************************************************)
(* Properties of the category classifier                                   *)
(***************************************************************************)

\* the text guessCategory matches its text rules against
ClassifierText(run) ==
    ToLower(OrEmpty(run.title) \o " " \o OrEmpty(run.description) \o " " \o OrEmpty(run.url))

\* no domain rule applies to the url of the run
NoDomainRule(run) ==
    \/ run.url = Null
    \/ Len(run.url) = 0
    \/ extractDomain(run.url) = Null
    \/ DomainCategory(extractDomain(run.url), run.url) = Null

\* no text rule matches the text of the run
NoTextRule(run) ==
    \A k \in DOMAIN TextRules : ~RegexTest(TextRules[k][2], ClassifierText(run))

\* C16: guessCategory returns for every title, description and url, null and
\* empty ones and a url that does not parse included; what it returns is one of
\* the categories, and it is articles when no domain rule and no text rule
\* matches.
C16_GuessCategoryTotal ==
    crun.done /\ crun # NoRun =>
       /\ crun.category \in CATEGORIES
       /\ NoDomainRule(crun) /\ NoTextRule(crun) => crun.category = "articles"

\* a null title, a null description and a url that does not parse, classified
\* as articles
C16_Witness ==
    /\ crun.done
    /\ crun.title = Null
    /\ crun.description = Null
    /\ crun.url = "not a url"
    /\ crun.category = "articles"

\* C17: no recommendation the parser returns has a url that matches the skip
\* list, and none has a title that is junk.
C17_NoSkippedUrlNoJunkTitle ==
    pdone =>
       \A i \in DOMAIN pout :
          /\ pout[i].url # Null
          /\ ~\E k \in DOMAIN SKIP_URL_PATTERNS : RegexTest(SKIP_URL_PATTERNS[k], pout[i].url)
          /\ pout[i].title # Null
          /\ Len(pout[i].title) \in 3..200
          /\ ~\E k \in DOMAIN JUNK_TITLE_PATTERNS :
                RegexTestI(JUNK_TITLE_PATTERNS[k], Trim(pout[i].title))

\* a page whose links hold a share link with a plausible anchor text, and
\* whose other links gave recommendations
C17_Witness ==
    /\ pdone
    /\ Len(pout) > 0
    /\ \E p \in Regions(pdoc) : HasAnchorTo(p, aShare.href)
    /\ \E k \in DOMAIN SKIP_URL_PATTERNS : RegexTest(SKIP_URL_PATTERNS[k], aShare.href)

(***************************************************************************)
(* Properties of the tagging                                               *)
(***************************************************************************)

\* no two rows of Tag have the same name once lower-cased and trimmed
TagNamesUnique(table) ==
    \A i, j \in DOMAIN table :
       i # j => Trim(ToLower(table[i])) # Trim(ToLower(table[j]))

\* C18: under every interleaving of addTagToRecommendation,
\* updateRecommendationTags and AI tagging calls the tag names stay unique,
\* lower-cased and trimmed; a name that exists already gets no new row, the call
\* takes the id of the row that has it; and connecting a tag that the
\* recommendation has already leaves its tags as they were.
C18_TagNamesUnique ==
    [][/\ TagNamesUnique(tags')
       /\ SubSeq(tags', 1, Len(tags)) = tags
       /\ \A w \in Workers :
             /\ tagReq[w].pc = "upsert" /\ tagReq'[w].pc = "insert" =>
                   ~\E i \in DOMAIN tags : Trim(ToLower(tags[i])) = tagReq'[w].names[1]
             /\ tagReq[w].pc = "insert" /\ tagReq'[w] # tagReq[w]
                /\ (\E i \in DOMAIN tags : Trim(ToLower(tags[i])) = tagReq[w].names[1])
                => tags' = tags
             /\ tagReq[w].pc \in {"upsert", "insert"} =>
                   \A id \in tagReq'[w].ids \ tagReq[w].ids :
                         /\ id \in DOMAIN tags'
                         /\ \E k \in DOMAIN tagReq[w].names : tags'[id] = tagReq[w].names[k]
             /\ tagReq[w].pc = "update" /\ tagReq'[w].pc = "idle" /\ tagReq[w].op # "set"
                /\ (\A id \in tagReq[w].ids : <<tagReq[w].rec, id>> \in recTags)
                => recTags' = recTags
      ]_vars

\* two calls have named the same tag in different spellings, one row has it,
\* and it is attached to a recommendation that is given it once more
C18_Witness ==
    /\ tags = <<"ai">>
    /\ <<1, 1>> \in recTags
    /\ \E w \in Workers :
          /\ tagReq[w].pc = "update"
          /\ tagReq[w].op = "add"
          /\ tagReq[w].rec = 1
          /\ tagReq[w].ids = {1}

(***************************************************************************)
(* Properties of the scrape of one issue                                   *)
(***************************************************************************)

\* the step writes the scraped timestamp of issue i, which had none
NewlyScraped(i) ==
    /\ i \in DOMAIN issues'
    /\ issues'[i].scrapedAt # Null
    /\ i \in DOMAIN issues => issues[i].scrapedAt = Null

\* an await of the scrape of an issue that request w is in has just rejected
ScrapeFailed(w) ==
    /\ req[w].fn \in {"issues", "single"}
    /\ req[w].pc \notin {"idle", "launch", "findMany"}
    /\ \/ req'[w].itemErrs > req[w].itemErrs
       \/ req'[w].topErrs > req[w].topErrs

\* C19: the scraped timestamp of an issue is written only as the last step of
\* a scrape of that issue, when its page has been parsed and each parsed
\* recommendation has been looked up and has a row; and a step of the scrape
\* that fails writes no timestamp and ends the scrape of that issue before
\* its last step.
C19_ScrapedAtLast ==
    [][/\ \A i \in DOMAIN issues' :
             NewlyScraped(i) =>
                \E w \in Workers :
                   /\ req[w].pc = "mark"
                   /\ req[w].issueId = i
                   /\ req[w].k = Len(req[w].recommendations)
                   /\ <<i, req[w].page>> \in persisted
                   /\ \A k \in DOMAIN req[w].recommendations :
                         \E n \in DOMAIN recs :
                            /\ recs[n].issueId = i
                            /\ recs[n].url = req[w].recommendations[k].url
       /\ \A w \in Workers :
             ScrapeFailed(w) =>
                /\ issues' = issues
                /\ req'[w].pc # "mark"
                /\ req'[w].pc \in {"findFirst", "create"} => req'[w].i # req[w].i
      ]_vars

\* an issue that is marked as scraped and has two recommendations
C19_Witness ==
    \E i \in DOMAIN issues :
       /\ issues[i].scrapedAt # Null
       /\ Cardinality({n \in DOMAIN recs : recs[n].issueId = i}) >= 2

\* C20: when the structured strategy yields no recommendation, the list the
\* parser returns is the list of the fallback strategy run alone on the article
\* region: a link of the region that passes the filters is in it even when its
\* url was met and rejected during the structured pass.
C20_FallbackAloneWhenStructuredEmpty ==
    pdone /\ Len(StructuredWalk(pdoc).recs) = 0 => pout = FallbackAlone(pdoc)

\* the heading blocks before the b-th block
HeadingsBefore(blocks, b) ==
    {h \in 1..(b - 1) : ~blocks[h].isNull /\ blocks[h].typename = "CoreHeadingBlockType"}

\* the text of the last heading before the b-th block, lower-cased and with its
\* runs of whitespace replaced by underscores; intro when there is none
SectionAt(blocks, b) ==
    IF HeadingsBefore(blocks, b) = {} THEN "intro"
    ELSE CollapseSpaces(ToLower(decodeHtmlEntities(blocks[MaxOf(HeadingsBefore(blocks, b))].html)))

\* the paragraph and list blocks with an anchor to the url
BlocksWith(blocks, url) ==
    {b \in DOMAIN blocks :
        /\ ~blocks[b].isNull
        /\ blocks[b].typename \in {"CoreParagraphBlockType", "CoreListBlockType"}
        /\ \E j \in DOMAIN blocks[b].contents : HasAnchorTo(blocks[b].contents[j].parts, url)}

Candidate(link, context) == [href |-> link.href, text |-> link.text, context |-> context]

\* the candidates of a list of links that share a context
WithContext(links, context) == [k \in DOMAIN links |-> Candidate(links[k], context)]

RECURSIVE ContentCandidates(_, _)
\* the candidates of the contents of a block, from the j-th on
ContentCandidates(contents, j) ==
    IF j > Len(contents) THEN <<>>
    ELSE WithContext(extractLinksFromHtml(contents[j].parts), PlainText(contents[j].parts, 1))
         \o ContentCandidates(contents, j + 1)

RECURSIVE BlockCandidates(_, _)
\* the candidates of the paragraph and list blocks, from the b-th block on
BlockCandidates(blocks, b) ==
    IF b > Len(blocks) THEN <<>>
    ELSE (IF blocks[b].typename \in {"CoreParagraphBlockType", "CoreListBlockType"}
          THEN ContentCandidates(blocks[b].contents, 1) ELSE <<>>)
         \o BlockCandidates(blocks, b + 1)

\* the candidates of the fallback: each link is its own context
ArticleCandidates(links) == [k \in DOMAIN links |-> Candidate(links[k], links[k].text)]

\* the candidates of the strategy that gave the list, in document order, for a
\* document whose list comes from one strategy that ran to its end
Candidates(doc) ==
    IF doc.nextData # "json"
    THEN (IF doc.hasArticle THEN ArticleCandidates(extractLinksFromHtml(doc.article)) ELSE <<>>)
    ELSE BlockCandidates(FoundBlocks(doc), 1)

\* the list comes from one strategy that ran to its end
OneStrategy(doc) ==
    \/ doc.nextData # "json"
    \/ ~StructuredWalk(doc).threw /\ Len(StructuredWalk(doc).recs) > 0

\* the positions at which a candidate with the url stands
PositionsOf(cands, url) == {k \in DOMAIN cands : NormalizeHref(cands[k].href) = url}

\* the candidate gives a recommendation when it is the only one
CandidateQualifies(c) ==
    Len(processLink(c.href, c.text, c.context, Null, Null, EmptyWalk).recs) = 1

\* C22: a link that the url filter, the junk filter or the title resolution
\* drops does not end the walk: a later link that qualifies, and whose url no
\* earlier link had, is in the list; and the recommendations stand in the order
\* in which their anchors stand in the document.
C22_DropDoesNotStopWalk ==
    pdone /\ OneStrategy(pdoc) =>
       /\ \A k \in DOMAIN Candidates(pdoc) :
             /\ CandidateQualifies(Candidates(pdoc)[k])
             /\ PositionsOf(Candidates(pdoc), NormalizeHref(Candidates(pdoc)[k].href))
                   \cap 1..(k - 1) = {}
             => \E i \in DOMAIN pout : pout[i].url = NormalizeHref(Candidates(pdoc)[k].href)
       /\ \A i, j \in DOMAIN pout :
             i < j => MinOf(PositionsOf(Candidates(pdoc), pout[i].url))
                      < MinOf(PositionsOf(Candidates(pdoc), pout[j].url))

\* an article whose first link is dropped and whose later links gave two
\* recommendations
C22_Witness ==
    /\ pdone
    /\ pdoc.nextData # "json"
    /\ Len(Candidates(pdoc)) > 0
    /\ ~CandidateQualifies(Candidates(pdoc)[1])
    /\ Len(pout) >= 2

\* the same in a block walk: a list item whose first link is dropped and whose
\* later links gave two recommendations
DropInBlockWalk ==
    /\ pdone
    /\ pdoc.nextData = "json"
    /\ OneStrategy(pdoc)
    /\ ~CandidateQualifies(Candidates(pdoc)[1])
    /\ Len(pout) >= 2

\* the url of the run gives guessCategory a domain
HasDomain(run) ==
    /\ run.url # Null
    /\ Len(run.url) > 0
    /\ extractDomain(run.url) # Null
    /\ Len(extractDomain(run.url)) > 0

\* the domain rules whose condition holds for the url of the run
RulesHolding(run) == Holding(DomainRules(extractDomain(run.url), run.url))

\* C23, as the specification states it: the domain rules are mutually exclusive,
\* for every url at most one of them holds.
C23_DomainRulesExclusive ==
    crun.done /\ HasDomain(crun) => Cardinality(RulesHolding(crun)) <= 1

\* C23, as the code has it: the domain rules are checked in a fixed order and
\* the category of a url that matches a domain rule is that of the first rule
\* in that order whose condition holds, whatever rules hold after it.
C23_FirstDomainRuleWins ==
    crun.done /\ HasDomain(crun) /\ RulesHolding(crun) # {} =>
       /\ crun.category =
             DomainRules(extractDomain(crun.url), crun.url)[MinOf(RulesHolding(crun))].category
       /\ crun.url = "https://www.amazon.com/gp/video/detail/B0" => crun.category = "shows"

\* a url for which the rule for shows and the rule for gadgets both hold,
\* classified as shows
C23_Witness ==
    /\ crun.done
    /\ HasDomain(crun)
    /\ Cardinality(RulesHolding(crun)) >= 2
    /\ crun.category = "shows"

(***************************************************************************)
(* Properties of the archive harvester                                     *)
(***************************************************************************)

\* the anchor is a link to an issue with a title that parseArchivePage accepts
AcceptableIssueLink(a) ==
    /\ a.kind = "a"
    /\ RegexTest(IssueUrlPattern, a.href)
    /\ Len(a.text) > 0
    /\ ~Includes(a.text, "<")
    /\ Len(decodeHtmlEntities(Trim(a.text))) >= 15
    /\ ~Includes(decodeHtmlEntities(Trim(a.text)), "Comment")
    /\ ~Includes(decodeHtmlEntities(Trim(a.text)), "See All")

\* the issue urls of the page that have an anchor with an acceptable title
AcceptableUrls(anchors) ==
    {anchors[k].href : k \in {j \in DOMAIN anchors : AcceptableIssueLink(anchors[j])}}

\* request w harvests an archive page of the site in this step
Harvests(w) ==
    /\ req[w].fn = "archive"
    /\ req[w].pc = "fetching"
    /\ req[w].pageNum \in DOMAIN ArchiveSite
    /\ req'[w].pageNum = req[w].pageNum + 1

\* what the step adds to the stubs of request w
StubsAdded(w) ==
    SubSeq(req'[w].allIssues, Len(req[w].allIssues) + 1, Len(req'[w].allIssues))

\* C24: parseArchivePage rejects the anchors with a short or UI-chrome title
\* first and deduplicates by url after that: the stubs of a page are one for
\* each issue url that has an anchor with an acceptable title, also when an
\* anchor with a rejected title for that url stands earlier on the page, and
\* never two with one url.
C24_OneStubPerAcceptableUrl ==
    [][\A w \in Workers :
          Harvests(w) =>
             /\ \A url \in AcceptableUrls(ArchiveSite[req[w].pageNum]) :
                   CountUrl(StubsAdded(w), url) = 1
             /\ \A k \in DOMAIN StubsAdded(w) : CountUrl(StubsAdded(w), StubsAdded(w)[k].url) = 1
      ]_vars

\* C25: the recommendations of one result come from a single strategy: the list
\* is that of the block walk or it holds nothing of the block walk, also when
\* the walk was left by an exception after it had found recommendations.
C25_SingleStrategy ==
    pdone =>
       \/ pout = StructuredWalk(pdoc).recs
       \/ Len(StructuredWalk(pdoc).recs) = 0

\* Properties of the recommendation store

\* C26: whatever the interleaving of the runs that persist recommendations of
\* one issue, no two recommendation rows have the same issueId and the same url.
C26_OneRowPerIssueUrl ==
    \A k, l \in DOMAIN recs :
       recs[k].issueId = recs[l].issueId /\ recs[k].url = recs[l].url => k = l

\* C27: when scrapeIssues has returned, recommendationsAdded is the number of
\* recommendation rows created during the run; stated for the first request
\* of a store without recommendations, where every row was created by that run.
C27_AddedCountsRowsCreated ==
    \A w \in Workers :
       started = 1 /\ req[w].fn = "issues" /\ req[w].pc = "responded" =>
          req[w].recsAdded = Len(recs)

\* the issue with the url is marked as scraped
Marked(url) == \E i \in DOMAIN issues : issues[i].url = url /\ issues[i].scrapedAt # Null

\* C28: when scrapeIssues(limit) is invoked again and again, every unscraped
\* issue whose page loads is eventually marked as scraped, whichever other
\* issues fail on every attempt.
C28_GoodIssuesEventuallyScraped ==
    \A url \in IssueUrls : (url \notin failing) ~> Marked(url)

\* scrapeSingleUrl has returned with an error for an issue that findUnique
\* returned as scraped
RescrapeFailed(w) ==
    /\ req[w].fn = "single"
    /\ req[w].pc = "responded"
    /\ req[w].snapScrapedAt # Null
    /\ req[w].scraped = 0

\* C29: a re-scrape by scrapeSingleUrl that ends with an error leaves the
\* issue marked: its scrapedAt, non-null when the run read it, is non-null
\* when the run has returned.
C29_FailedRescrapeKeepsMark ==
    \A w \in Workers : RescrapeFailed(w) => issues[req[w].issueId].scrapedAt # Null

\* Properties of the AI categorization

\* the results categorizeAll made up for a batch that failed
FailedResults == {j \in DOMAIN aiReq.aiResults : aiReq.aiResults[j].reasoning = "Batch failed"}

\* the category the call read for the row
CategoryRead(id) ==
    LET k == CHOOSE n \in DOMAIN aiReq.recommendations : aiReq.recommendations[n].id = id
    IN  aiReq.recommendations[k].category

\* C30: when aiCategorizeRecommendations has returned, every recommendation of
\* a batch that failed has the category it had when the call read it, and is
\* not reported with success.
C30_FailedBatchChangesNothing ==
    aiReq.pc = "returned" =>
       \A j \in FailedResults :
          /\ recs[aiReq.aiResults[j].id].category = CategoryRead(aiReq.aiResults[j].id)
          /\ \A n \in DOMAIN aiReq.results :
                aiReq.results[n].id = aiReq.aiResults[j].id => ~aiReq.results[n].success

====
